---- MODULE Spec2Model ----
(***************************************************************************)
(* Model of the product matching scorer and of the matching workflow of    *)
(* src/product_matching_system.py.                                         *)
(*                                                                         *)
(* Product records are JSON trees.  A JSON value is a tagged record        *)
(* [t |-> kind, v |-> payload]: "dict" (payload: the sequence of its       *)
(* <<key, value>> pairs in insertion order, keys distinct), "list"         *)
(* (payload: sequence of values), "str" (payload: string), "int" (payload: *)
(* integer), "float" (payload: the number in hundredths), "null".  Python  *)
(* strings are TLA+ strings, read character by character with SubSeq.      *)
(* Floats are kept exactly, as hundredths: the inputs carry at most two    *)
(* decimals, no exponent, no inf/nan.  Scores are integers: every product  *)
(* of weights the scorer forms (80*0.7, 40*0.8, 20*0.7, 30*0.5, 5*n) is an *)
(* integer-valued float.                                                   *)
(***************************************************************************)
EXTENDS Integers, Sequences, FiniteSets, TLC

VARIABLES
    amazon_product,     \* first argument of calculate_match_score
    target_product,     \* second argument of calculate_match_score
    total_score,        \* total returned by the last call
    score_breakdown,    \* breakdown returned by the last call
    confidence,         \* get_confidence_level of the last total, "" before
    pc,                 \* "ready": arguments bound; "returned": call returned
    base_score,         \* <<total>> returned before the identifier was added
    wf_pc,              \* position in run_complete_matching_workflow
    amazon_products,    \* search results of the source marketplace
    target_products,    \* search results of the target marketplace
    detailed_amazon_products,
    detailed_target_products,
    fetch_index,        \* position of the running detail-fetch loop
    matching_results,   \* the list the workflow builds, sorts and returns
    report,             \* <<report_data>> once _generate_matching_report ran
    raised,             \* name of the exception that left the workflow, or ""
    calls               \* the calls of calculate_match_score running side by side

scorer_vars == <<amazon_product, target_product, total_score, score_breakdown,
                 confidence, pc, base_score>>
workflow_vars == <<wf_pc, amazon_products, target_products,
                   detailed_amazon_products, detailed_target_products,
                   fetch_index, matching_results, report, raised>>
parallel_vars == <<calls>>
vars == <<scorer_vars, workflow_vars, parallel_vars>>

(***************************************************************************)
(* JSON values                                                             *)
(***************************************************************************)
StrV(s) == [t |-> "str", v |-> s]
IntV(n) == [t |-> "int", v |-> n]
FloatV(h) == [t |-> "float", v |-> h]
Null == [t |-> "null", v |-> 0]
Dict(f) == [t |-> "dict", v |-> f]
List(q) == [t |-> "list", v |-> q]
EmptyDict == Dict(<<>>)

\* dict methods: "k in d", d[k], d.keys()
HasKey(d, k) == \E i \in 1..Len(d.v) : d.v[i][1] = k
GetKey(d, k) == d.v[CHOOSE i \in 1..Len(d.v) : d.v[i][1] = k][2]

\* Python truth value of a JSON value ("if value:")
Truthy(x) ==
    CASE x.t = "str" -> x.v # ""
      [] x.t = "int" -> x.v # 0
      [] x.t = "float" -> x.v # 0
      [] x.t = "null" -> FALSE
      [] x.t = "dict" -> Len(x.v) > 0
      [] x.t = "list" -> Len(x.v) > 0

(***************************************************************************)
(* Python string methods                                                   *)
(***************************************************************************)
Char(s, i) == SubSeq(s, i, i)

IsSpace(c) == c = " "

Digits == <<"0", "1", "2", "3", "4", "5", "6", "7", "8", "9">>

IsDigit(c) == \E i \in 1..10 : Digits[i] = c

DigitVal(c) == (CHOOSE i \in 1..10 : Digits[i] = c) - 1

UpperChars == <<"A", "B", "C", "D", "E", "F", "G", "H", "I", "J", "K", "L", "M",
                "N", "O", "P", "Q", "R", "S", "T", "U", "V", "W", "X", "Y", "Z">>

LowerChars == <<"a", "b", "c", "d", "e", "f", "g", "h", "i", "j", "k", "l", "m",
                "n", "o", "p", "q", "r", "s", "t", "u", "v", "w", "x", "y", "z">>

LowerChar(c) ==
    IF \E i \in 1..26 : UpperChars[i] = c
    THEN LowerChars[CHOOSE i \in 1..26 : UpperChars[i] = c]
    ELSE c

\* \w of the re module: letters, digits and the underscore
IsWordChar(c) ==
    \/ IsDigit(c)
    \/ c = "_"
    \/ \E i \in 1..26 : UpperChars[i] = c \/ LowerChars[i] = c

MapChar(c, which) ==
    CASE which = "lower" -> LowerChar(c)
      [] which = "punct" -> IF IsWordChar(c) \/ IsSpace(c) THEN c ELSE " "
      [] which = "nocomma" -> IF c = "," THEN "" ELSE c

RECURSIVE MapChars(_, _)
\* s with every character mapped, by halves
MapChars(s, which) ==
    IF Len(s) = 0 THEN ""
    ELSE IF Len(s) = 1 THEN MapChar(s, which)
    ELSE MapChars(SubSeq(s, 1, Len(s) \div 2), which)
         \o MapChars(SubSeq(s, (Len(s) \div 2) + 1, Len(s)), which)

\* str.lower()
py_lower(s) == MapChars(s, "lower")

\* re.sub(r'[^\w\s]', ' ', s)
py_sub_punct(s) == MapChars(s, "punct")

\* str.replace(',', '')
py_remove_commas(s) == MapChars(s, "nocomma")

\* the first index from i on whose character is a blank (space = TRUE) or is
\* not one (space = FALSE); Len(s) + 1 when there is none
FirstAt(s, i, space) ==
    IF \E j \in i..Len(s) : IsSpace(Char(s, j)) = space
    THEN CHOOSE j \in i..Len(s) :
             /\ IsSpace(Char(s, j)) = space
             /\ \A k \in i..(j - 1) : IsSpace(Char(s, k)) # space
    ELSE Len(s) + 1

\* the last index whose character is not a blank; 0 when there is none
LastNonSpace(s) ==
    IF \E j \in 1..Len(s) : ~IsSpace(Char(s, j))
    THEN CHOOSE j \in 1..Len(s) :
             /\ ~IsSpace(Char(s, j))
             /\ \A k \in (j + 1)..Len(s) : IsSpace(Char(s, k))
    ELSE 0

\* str.strip()
py_strip(s) == SubSeq(s, FirstAt(s, 1, FALSE), LastNonSpace(s))

RECURSIVE SplitFrom(_, _, _)
SplitFrom(s, i, acc) ==
    LET b == FirstAt(s, i, FALSE)
        e == FirstAt(s, b, TRUE)
    IN  IF b > Len(s) THEN acc
        ELSE SplitFrom(s, e, Append(acc, SubSeq(s, b, e - 1)))

\* str.split(): the whitespace-separated words, in order
py_split(s) == SplitFrom(s, 1, <<>>)

\* the first index from i on whose character is a point; Len(s) + 1 when none
FirstDot(s, i) ==
    IF \E j \in i..Len(s) : Char(s, j) = "."
    THEN CHOOSE j \in i..Len(s) :
             Char(s, j) = "." /\ \A k \in i..(j - 1) : Char(s, k) # "."
    ELSE Len(s) + 1

RECURSIVE SplitDotFrom(_, _, _)
SplitDotFrom(s, i, acc) ==
    LET e == FirstDot(s, i)
    IN  IF e > Len(s) THEN Append(acc, SubSeq(s, i, Len(s)))
        ELSE SplitDotFrom(s, e + 1, Append(acc, SubSeq(s, i, e - 1)))

\* str.split('.')
py_split_dot(s) == SplitDotFrom(s, 1, <<>>)

RECURSIVE JoinFrom(_, _, _)
JoinFrom(ws, i, acc) ==
    IF i > Len(ws) THEN acc
    ELSE JoinFrom(ws, i + 1, IF i = 1 THEN ws[i] ELSE acc \o " " \o ws[i])

\* ' '.join(words)
py_join(ws) == JoinFrom(ws, 1, "")

\* sub in s
py_in(sub, s) ==
    \E i \in 0..(Len(s) - Len(sub)) : SubSeq(s, i + 1, i + Len(sub)) = sub

\* str.isdigit()
py_isdigit(s) == Len(s) > 0 /\ \A i \in 1..Len(s) : IsDigit(Char(s, i))

\* set(words)
SeqToSet(ws) == {ws[i] : i \in 1..Len(ws)}

(***************************************************************************)
(* Numbers: str() and float()                                              *)
(***************************************************************************)
RECURSIVE NatToStr(_)
NatToStr(n) ==
    IF n < 10 THEN Digits[n + 1] ELSE NatToStr(n \div 10) \o Digits[(n % 10) + 1]

\* str(n) of an int
IntToStr(n) == IF n < 0 THEN "-" \o NatToStr(-n) ELSE NatToStr(n)

\* str(x) of a float given in hundredths: 3897 is '38.97', 1000 is '10.0'
FloatToStr(h) ==
    LET a == IF h < 0 THEN -h ELSE h
        frac == IF a % 10 = 0 THEN Digits[((a % 100) \div 10) + 1]
                ELSE Digits[((a % 100) \div 10) + 1] \o Digits[(a % 10) + 1]
    IN  (IF h < 0 THEN "-" ELSE "") \o NatToStr(a \div 100) \o "." \o frac

\* the first index from i on whose character is a digit (digit = TRUE) or is
\* not one (digit = FALSE); Len(s) + 1 when there is none
FirstDigitAt(s, i, digit) ==
    IF \E j \in i..Len(s) : IsDigit(Char(s, j)) = digit
    THEN CHOOSE j \in i..Len(s) :
             /\ IsDigit(Char(s, j)) = digit
             /\ \A k \in i..(j - 1) : IsDigit(Char(s, k)) # digit
    ELSE Len(s) + 1

\* index after the run of digits of s that starts at i
DigitRunEnd(s, i) == FirstDigitAt(s, i, FALSE)

RECURSIVE DigitsToNat(_, _, _)
DigitsToNat(s, i, acc) ==
    IF i > Len(s) THEN acc ELSE DigitsToNat(s, i + 1, 10 * acc + DigitVal(Char(s, i)))

\* the value in hundredths of the digits ip, a point, the digits fp
Hundredths(ip, fp) ==
    100 * DigitsToNat(ip, 1, 0)
    + (IF Len(fp) >= 1 THEN 10 * DigitVal(Char(fp, 1)) ELSE 0)
    + (IF Len(fp) >= 2 THEN DigitVal(Char(fp, 2)) ELSE 0)

NoFloat == [ok |-> FALSE, h |-> 0]
SomeFloat(h) == [ok |-> TRUE, h |-> h]

\* float(s) of a string: [sign] digits [. digits] or [sign] . digits, with
\* surrounding whitespace; anything else is a ValueError (NoFloat)
StrToFloat(s0) ==
    LET s == py_strip(s0)
        neg == Len(s) > 0 /\ Char(s, 1) = "-"
        b == IF Len(s) > 0 /\ (Char(s, 1) = "-" \/ Char(s, 1) = "+") THEN 2 ELSE 1
        e1 == DigitRunEnd(s, b)
        dot == e1 <= Len(s) /\ Char(s, e1) = "."
        e2 == IF dot THEN DigitRunEnd(s, e1 + 1) ELSE e1
        ip == SubSeq(s, b, e1 - 1)
        fp == IF dot THEN SubSeq(s, e1 + 1, e2 - 1) ELSE ""
    IN  IF e2 = Len(s) + 1 /\ (Len(ip) > 0 \/ Len(fp) > 0)
        THEN SomeFloat((IF neg THEN -1 ELSE 1) * Hundredths(ip, fp))
        ELSE NoFloat

\* float(x) of a JSON value; a TypeError or ValueError is NoFloat
py_float(x) ==
    CASE x.t = "str" -> StrToFloat(x.v)
      [] x.t = "int" -> SomeFloat(100 * x.v)
      [] x.t = "float" -> SomeFloat(x.v)
      [] OTHER -> NoFloat

FirstDigit(s, i) == FirstDigitAt(s, i, TRUE)

\* re.search(r'[\d,]+\.?\d*', s) on a string without commas, then float() of
\* the match: the first run of digits, with the point and the digits after it
SearchPrice(s) ==
    LET b == FirstDigit(s, 1)
        e1 == DigitRunEnd(s, b)
        dot == e1 <= Len(s) /\ Char(s, e1) = "."
        e2 == IF dot THEN DigitRunEnd(s, e1 + 1) ELSE e1
    IN  IF b > Len(s) THEN NoFloat
        ELSE SomeFloat(Hundredths(SubSeq(s, b, e1 - 1),
                                  IF dot THEN SubSeq(s, e1 + 1, e2 - 1) ELSE ""))

RECURSIVE py_repr(_)
RECURSIVE ReprItems(_, _, _, _)
\* the items of a list or dict, separated by ", "
ReprItems(q, i, acc, isdict) ==
    IF i > Len(q) THEN acc
    ELSE LET one == IF isdict THEN "'" \o q[i][1] \o "': " \o py_repr(q[i][2])
                    ELSE py_repr(q[i])
         IN  ReprItems(q, i + 1, IF i = 1 THEN one ELSE acc \o ", " \o one, isdict)

\* repr(x)
py_repr(x) ==
    CASE x.t = "str" -> "'" \o x.v \o "'"
      [] x.t = "int" -> IntToStr(x.v)
      [] x.t = "float" -> FloatToStr(x.v)
      [] x.t = "null" -> "None"
      [] x.t = "list" -> "[" \o ReprItems(x.v, 1, "", FALSE) \o "]"
      [] x.t = "dict" -> "{" \o ReprItems(x.v, 1, "", TRUE) \o "}"

\* str(x)
py_str(x) == IF x.t = "str" THEN x.v ELSE py_repr(x)

(***************************************************************************)
(* ProductMatchingScorer                                                   *)
(***************************************************************************)
\* self.scoring_weights, set once in __init__
scoring_weights ==
    [upc_match |-> 100, model_match |-> 80, brand_match |-> 40,
     title_similarity_high |-> 70, title_similarity_medium |-> 50,
     title_similarity_low |-> 30, dimensions_exact |-> 60,
     dimensions_close |-> 40, weight_exact |-> 50, weight_close |-> 30,
     price_match |-> 25, category_match |-> 20, color_match |-> 15,
     material_match |-> 15, feature_keyword |-> 5]

RECURSIVE WalkGet(_, _)
\* the inner loop of _extract_text_safely: value.get(k, "") down the keys,
\* "" as soon as the value is not a dict
WalkGet(value, ks) ==
    IF ks = <<>> THEN value
    ELSE IF value.t = "dict"
         THEN WalkGet(IF HasKey(value, Head(ks)) THEN GetKey(value, Head(ks))
                      ELSE StrV(""), Tail(ks))
         ELSE StrV("")

RECURSIVE ExtractTextFrom(_, _, _, _)
ExtractTextFrom(product, keys, i, text) ==
    IF i > Len(keys) THEN text
    ELSE LET value == WalkGet(product, py_split_dot(keys[i]))
         IN  ExtractTextFrom(product, keys, i + 1,
                 IF Truthy(value) /\ value.t = "str"
                 THEN text \o " " \o value.v ELSE text)

\* the strings found at the key paths, joined by blanks, stripped, lower-cased
_extract_text_safely(product, keys) ==
    py_lower(py_strip(ExtractTextFrom(product, keys, 1, "")))

amazon_upc_paths ==
    <<"specifications.upc", "specifications.gtin", "specifications.ean",
      "identifiers.upc", "identifiers.gtin", "identifiers.ean",
      "basic_info.upc", "basic_info.gtin">>

target_upc_paths ==
    <<"basic_info.upc", "basic_info.gtin",
      "technical_specs.specifications.upc", "product_details.upc">>

\* variant: only identifiers longer than 12 characters count
_check_upc_match_over12(amazon, target) ==
    LET amazon_upc == _extract_text_safely(amazon, amazon_upc_paths)
        target_upc == _extract_text_safely(target, target_upc_paths)
    IN  IF amazon_upc # "" /\ target_upc # "" /\ Len(amazon_upc) > 12
           /\ amazon_upc = target_upc
        THEN scoring_weights.upc_match
        ELSE 0

_check_upc_match(amazon, target) ==
    LET amazon_upc == _extract_text_safely(amazon, amazon_upc_paths)
        target_upc == _extract_text_safely(target, target_upc_paths)
    IN  IF amazon_upc # "" /\ target_upc # "" /\ Len(amazon_upc) > 8
           /\ amazon_upc = target_upc
        THEN scoring_weights.upc_match
        ELSE 0

_check_model_match(amazon, target) ==
    LET amazon_model == _extract_text_safely(amazon,
            <<"specifications.model_number", "specifications.model",
              "identifiers.model_number", "basic_info.model_number">>)
        target_model == _extract_text_safely(target,
            <<"basic_info.model_number",
              "technical_specs.specifications.model_number",
              "product_details.model">>)
    IN  IF amazon_model # "" /\ target_model # "" /\ Len(amazon_model) > 3
        THEN IF amazon_model = target_model
             THEN scoring_weights.model_match
             ELSE IF py_in(amazon_model, target_model)
                     \/ py_in(target_model, amazon_model)
                  THEN (scoring_weights.model_match * 7) \div 10
                  ELSE 0
        ELSE 0

\* brand_mappings: <<canonical, variations>>
brand_mappings ==
    << <<"amazon basics", {"amazonbasics", "amazon", "basics"}>>,
       <<"apple", {"apple inc", "apple computer"}>>,
       <<"samsung", {"samsung electronics", "samsung group"}>>,
       <<"google", {"google llc", "alphabet"}>>,
       <<"microsoft", {"microsoft corporation", "msft"}>>,
       <<"sony", {"sony corporation", "sony group"}>>,
       <<"lg", {"lg electronics", "lg corp"}>>,
       <<"hp", {"hewlett-packard", "hewlett packard"}>>,
       <<"dell", {"dell technologies", "dell inc"}>>,
       <<"lenovo", {"lenovo group"}>>,
       <<"best office", {"bestoffice"}>>,
       <<"ikea", {"ikea group"}>>,
       <<"wayfair", {"wayfair llc"}>>,
       <<"nike", {"nike inc"}>>,
       <<"adidas", {"adidas ag"}>>,
       <<"under armour", {"underarmour"}>>,
       <<"cuisinart", {"conair cuisinart"}>>,
       <<"kitchenaid", {"kitchen aid"}>>,
       <<"black decker", {"black & decker", "blackdecker"}>>,
       <<"pro", {"professional"}>>,
       <<"max", {"maximum"}>>,
       <<"ultra", {"ultra-"}>>,
       <<"plus", {"+"}>> >>

RECURSIVE Initials(_, _, _)
\* ''.join([word[0] for word in words])
Initials(ws, i, acc) ==
    IF i > Len(ws) THEN acc ELSE Initials(ws, i + 1, acc \o Char(ws[i], 1))

\* variant: one brand inside the other counts whatever their lengths
_brands_similar_any_length(brand1, brand2) ==
    LET b1 == py_strip(py_lower(brand1))
        b2 == py_strip(py_lower(brand2))
        w1 == py_split(b1)
        w2 == py_split(b2)
    IN  \/ b1 = b2
        \/ \E i \in 1..Len(brand_mappings) :
              /\ (b1 = brand_mappings[i][1] \/ b1 \in brand_mappings[i][2])
              /\ (b2 = brand_mappings[i][1] \/ b2 \in brand_mappings[i][2])
        \/ py_in(b1, b2) \/ py_in(b2, b1)
        \/ Len(w1) > 1 /\ Len(b2) <= 4 /\ Initials(w1, 1, "") = b2
        \/ Len(w2) > 1 /\ Len(b1) <= 4 /\ Initials(w2, 1, "") = b1

_brands_similar(brand1, brand2) ==
    LET b1 == py_strip(py_lower(brand1))
        b2 == py_strip(py_lower(brand2))
        w1 == py_split(b1)
        w2 == py_split(b2)
    IN  \/ b1 = b2
        \/ \E i \in 1..Len(brand_mappings) :
              /\ (b1 = brand_mappings[i][1] \/ b1 \in brand_mappings[i][2])
              /\ (b2 = brand_mappings[i][1] \/ b2 \in brand_mappings[i][2])
        \/ Len(b1) > 3 /\ Len(b2) > 3 /\ (py_in(b1, b2) \/ py_in(b2, b1))
        \/ Len(w1) > 1 /\ Len(b2) <= 4 /\ Initials(w1, 1, "") = b2
        \/ Len(w2) > 1 /\ Len(b1) <= 4 /\ Initials(w2, 1, "") = b1

\* variant: the brands are compared without the test that both are present
_check_brand_match_unguarded(amazon, target) ==
    LET amazon_brand == _extract_text_safely(amazon, <<"brand", "basic_info.brand">>)
        target_brand == _extract_text_safely(target, <<"basic_info.brand", "brand">>)
    IN  IF amazon_brand = target_brand
        THEN scoring_weights.brand_match
        ELSE IF amazon_brand # "" /\ target_brand # ""
                /\ _brands_similar(amazon_brand, target_brand)
             THEN (scoring_weights.brand_match * 8) \div 10
             ELSE 0

_check_brand_match(amazon, target) ==
    LET amazon_brand == _extract_text_safely(amazon, <<"brand", "basic_info.brand">>)
        target_brand == _extract_text_safely(target, <<"basic_info.brand", "brand">>)
    IN  IF amazon_brand # "" /\ target_brand # ""
        THEN IF amazon_brand = target_brand
             THEN scoring_weights.brand_match
             ELSE IF _brands_similar(amazon_brand, target_brand)
                  THEN (scoring_weights.brand_match * 8) \div 10
                  ELSE 0
        ELSE 0

noise_words ==
    {"for", "with", "and", "the", "a", "an", "in", "on", "at", "by", "of", "to", "from"}

_normalize_title(title) ==
    LET normalized == py_join(py_split(py_sub_punct(py_lower(title))))
        Meaningful(w) == Len(w) > 2 /\ w \notin noise_words
    IN  py_join(SelectSeq(py_split(normalized), Meaningful))

\* variant: the words in common over the smaller of the two token sets
_calculate_text_similarity_overlap(text1, text2) ==
    LET tokens1 == SeqToSet(py_split(text1))
        tokens2 == SeqToSet(py_split(text2))
    IN  IF text1 = "" \/ text2 = "" THEN <<0, 1>>
        ELSE IF tokens1 \cup tokens2 = {} THEN <<0, 1>>
        ELSE <<Cardinality(tokens1 \cap tokens2),
               IF Cardinality(tokens1) <= Cardinality(tokens2)
               THEN Cardinality(tokens1) ELSE Cardinality(tokens2)>>

\* Jaccard similarity of the two token sets, as the fraction <<num, den>>
_calculate_text_similarity(text1, text2) ==
    LET tokens1 == SeqToSet(py_split(text1))
        tokens2 == SeqToSet(py_split(text2))
    IN  IF text1 = "" \/ text2 = "" THEN <<0, 1>>
        ELSE IF tokens1 \cup tokens2 = {} THEN <<0, 1>>
        ELSE <<Cardinality(tokens1 \cap tokens2), Cardinality(tokens1 \cup tokens2)>>

Min(a, b) == IF a <= b THEN a ELSE b
Max(a, b) == IF a >= b THEN a ELSE b
Abs(a) == IF a < 0 THEN -a ELSE a

\* similarity + bonus >= twentieths/20, where similarity = sim[1]/sim[2] and the
\* bonus is min(common * 0.1, 0.3) = tenths/10
AtLeast(sim, tenths, twentieths) ==
    20 * sim[1] + 2 * tenths * sim[2] >= twentieths * sim[2]

title_paths_amazon == <<"title", "basic_info.name">>
title_paths_target == <<"basic_info.name", "title">>

\* variant: no bonus for the words in common
_check_title_similarity_no_bonus(amazon, target) ==
    LET amazon_title == _extract_text_safely(amazon, title_paths_amazon)
        target_title == _extract_text_safely(target, title_paths_target)
        amazon_clean == _normalize_title(amazon_title)
        target_clean == _normalize_title(target_title)
        similarity == _calculate_text_similarity(amazon_clean, target_clean)
    IN  IF amazon_title = "" \/ target_title = "" THEN 0
        ELSE IF AtLeast(similarity, 0, 15)
             THEN scoring_weights.title_similarity_high
        ELSE IF AtLeast(similarity, 0, 10)
             THEN scoring_weights.title_similarity_medium
        ELSE IF AtLeast(similarity, 0, 5)
             THEN scoring_weights.title_similarity_low
        ELSE IF AtLeast(similarity, 0, 2)
             THEN scoring_weights.title_similarity_low \div 2
        ELSE 0

_check_title_similarity(amazon, target) ==
    LET amazon_title == _extract_text_safely(amazon, title_paths_amazon)
        target_title == _extract_text_safely(target, title_paths_target)
        amazon_clean == _normalize_title(amazon_title)
        target_clean == _normalize_title(target_title)
        similarity == _calculate_text_similarity(amazon_clean, target_clean)
        amazon_words == SeqToSet(py_split(py_lower(amazon_clean)))
        target_words == SeqToSet(py_split(py_lower(target_clean)))
        common_important_words == amazon_words \cap target_words
        important_word_bonus == Min(Cardinality(common_important_words), 3)
    IN  IF amazon_title = "" \/ target_title = "" THEN 0
        ELSE IF AtLeast(similarity, important_word_bonus, 15)
             THEN scoring_weights.title_similarity_high
        ELSE IF AtLeast(similarity, important_word_bonus, 10)
             THEN scoring_weights.title_similarity_medium
        ELSE IF AtLeast(similarity, important_word_bonus, 5)
             THEN scoring_weights.title_similarity_low
        ELSE IF AtLeast(similarity, important_word_bonus, 2)
             THEN scoring_weights.title_similarity_low \div 2
        ELSE 0

RECURSIVE IndexDown(_, _)
\* value = value[key] down the keys; None when an index raises
IndexDown(value, ks) ==
    IF ks = <<>> THEN value
    ELSE IF value.t = "dict" /\ HasKey(value, Head(ks))
         THEN IndexDown(GetKey(value, Head(ks)), Tail(ks))
         ELSE Null

_get_nested_value(data, path) == IndexDown(data, py_split_dot(path))

dim_paths == <<"physical_attributes", "specifications.dimensions",
               "technical_specs.specifications">>

dim_keys == {"length", "width", "height"}

NoDims == [ok |-> FALSE, d |-> <<>>]
SomeDims(d) == [ok |-> TRUE, d |-> d]

\* extracted: the keys of dim_keys in the dict dims_data whose value float() accepts
DimsOf(dims_data) ==
    [k \in {k \in dim_keys : HasKey(dims_data, k) /\ py_float(GetKey(dims_data, k)).ok}
       |-> py_float(GetKey(dims_data, k)).h]

RECURSIVE ExtractDimensionsFrom(_, _)
\* a number at a dimension path makes "key in dims_data" raise, which the outer
\* except turns into None; a string or a list yields nothing (the index raises)
ExtractDimensionsFrom(product, i) ==
    IF i > Len(dim_paths) THEN NoDims
    ELSE LET dims_data == _get_nested_value(product, dim_paths[i])
         IN  IF ~Truthy(dims_data) THEN ExtractDimensionsFrom(product, i + 1)
             ELSE IF dims_data.t \in {"int", "float"} THEN NoDims
             ELSE IF dims_data.t = "dict" /\ Cardinality(DOMAIN DimsOf(dims_data)) >= 2
                  THEN SomeDims(DimsOf(dims_data))
                  ELSE ExtractDimensionsFrom(product, i + 1)

_extract_dimensions(product) == ExtractDimensionsFrom(product, 1)

\* abs(v1 - v2) / max(v1, v2) > tol[1]/tol[2], for max(v1, v2) # 0
RelDiffExceeds(v1, v2, tol) ==
    LET m == Max(v1, v2)
    IN  IF m > 0 THEN Abs(v1 - v2) * tol[2] > tol[1] * m
        ELSE tol[1] < 0

_dimensions_match(dims1, dims2, tolerance) ==
    LET common_keys == (DOMAIN dims1) \cap (DOMAIN dims2)
    IN  /\ Cardinality(common_keys) >= 2
        /\ \A key \in common_keys :
              \/ dims1[key] = 0
              \/ dims2[key] = 0
              \/ ~RelDiffExceeds(dims1[key], dims2[key], tolerance)

_check_dimensions_match(amazon, target) ==
    LET amazon_dims == _extract_dimensions(amazon)
        target_dims == _extract_dimensions(target)
    IN  IF ~amazon_dims.ok \/ ~target_dims.ok THEN 0
        ELSE IF _dimensions_match(amazon_dims.d, target_dims.d, <<0, 1>>)
             THEN scoring_weights.dimensions_exact
        ELSE IF _dimensions_match(amazon_dims.d, target_dims.d, <<1, 20>>)
             THEN scoring_weights.dimensions_close
        ELSE 0

weight_paths == <<"physical_attributes.weight", "specifications.weight",
                  "technical_specs.specifications.weight">>

RECURSIVE ExtractWeightFrom_abort(_, _)
\* variant: "except: return None" in place of "except: continue"
ExtractWeightFrom_abort(product, i) ==
    IF i > Len(weight_paths) THEN NoFloat
    ELSE LET weight_data == _get_nested_value(product, weight_paths[i])
         IN  IF Truthy(weight_data) THEN py_float(weight_data)
             ELSE ExtractWeightFrom_abort(product, i + 1)

RECURSIVE ExtractWeightFrom(_, _)
ExtractWeightFrom(product, i) ==
    IF i > Len(weight_paths) THEN NoFloat
    ELSE LET weight_data == _get_nested_value(product, weight_paths[i])
         IN  IF Truthy(weight_data) /\ py_float(weight_data).ok
             THEN py_float(weight_data)
             ELSE ExtractWeightFrom(product, i + 1)

_extract_weight(product) == ExtractWeightFrom(product, 1)

_check_weight_match(amazon, target) ==
    LET amazon_weight == _extract_weight(amazon)
        target_weight == _extract_weight(target)
    IN  IF ~amazon_weight.ok \/ amazon_weight.h = 0
           \/ ~target_weight.ok \/ target_weight.h = 0 THEN 0
        ELSE IF amazon_weight.h = target_weight.h
             THEN scoring_weights.weight_exact
        ELSE IF ~RelDiffExceeds(amazon_weight.h, target_weight.h, <<1, 10>>)
             THEN scoring_weights.weight_close
        ELSE 0

price_paths == <<"pricing.current_price", "pricing.formatted_current_price",
                 "pricing.price">>

RECURSIVE ExtractPriceFrom(_, _)
ExtractPriceFrom(product, i) ==
    IF i > Len(price_paths) THEN NoFloat
    ELSE LET price_data == _get_nested_value(product, price_paths[i])
             price_match == SearchPrice(py_remove_commas(py_str(price_data)))
         IN  IF Truthy(price_data) /\ price_match.ok THEN price_match
             ELSE ExtractPriceFrom(product, i + 1)

_extract_price(product) == ExtractPriceFrom(product, 1)

_check_price_match(amazon, target) ==
    LET amazon_price == _extract_price(amazon)
        target_price == _extract_price(target)
    IN  IF ~amazon_price.ok \/ amazon_price.h = 0
           \/ ~target_price.ok \/ target_price.h = 0 THEN 0
        ELSE IF ~RelDiffExceeds(amazon_price.h, target_price.h, <<1, 5>>)
             THEN scoring_weights.price_match
        ELSE 0

\* {str(c).lower() for c in a list}, or {str(x).lower()} for any other value
LoweredStrings(x) ==
    IF x.t = "list" THEN {py_lower(py_str(x.v[i])) : i \in 1..Len(x.v)}
    ELSE {py_lower(py_str(x))}

RECURSIVE CollectFrom(_, _, _, _)
\* the lowered strings of the truthy values at the paths
CollectFrom(product, paths, i, acc) ==
    IF i > Len(paths) THEN acc
    ELSE LET data == _get_nested_value(product, paths[i])
         IN  CollectFrom(product, paths, i + 1,
                 IF Truthy(data) THEN acc \cup LoweredStrings(data) ELSE acc)

_extract_categories(product) ==
    CollectFrom(product,
        <<"categories", "category_info.category_name", "breadcrumbs">>, 1, {})

product_type_words ==
    {"chair", "table", "phone", "laptop", "book", "speaker", "headphone",
     "mouse", "keyboard", "monitor", "tablet", "camera", "watch", "bag",
     "case", "cable", "charger", "stand", "holder", "rack", "shelf",
     "light", "lamp", "fan", "heater", "cooler", "bottle", "cup", "mug",
     "tool", "drill", "saw", "hammer", "screwdriver", "wrench", "kit",
     "game", "controller", "console", "tv", "remote", "adapter"}

compound_bases ==
    {"office", "gaming", "wireless", "bluetooth", "smart", "digital",
     "electric", "manual", "portable", "desktop", "mobile"}

_extract_product_type_keywords(title) ==
    LET words == py_split(py_lower(title))
        kept == {i \in 1..Len(words) : Len(words[i]) > 2 /\ ~py_isdigit(words[i])}
    IN  {words[i] : i \in {j \in kept : j = 1 \/ words[j] \in product_type_words}}
        \cup {words[i] \o " " \o words[i + 1] :
                 i \in {j \in kept : /\ j < Len(words)
                                     /\ \E base \in compound_bases :
                                           py_in(base, words[j] \o " " \o words[j + 1])}}

related_groups ==
    <<{"chair", "seat", "stool", "bench"},
      {"table", "desk", "workstation", "stand"},
      {"phone", "smartphone", "mobile", "cell phone"},
      {"laptop", "notebook", "computer", "pc"},
      {"headphone", "headset", "earphone", "earbuds"},
      {"speaker", "soundbar", "audio", "sound system"},
      {"mouse", "trackball", "touchpad", "pointing device"},
      {"keyboard", "keypad", "input device"},
      {"monitor", "display", "screen", "lcd", "led"},
      {"tablet", "ipad", "android tablet", "slate"},
      {"camera", "webcam", "camcorder", "video camera"},
      {"watch", "smartwatch", "fitness tracker", "wearable"},
      {"bag", "backpack", "case", "pouch", "sleeve"},
      {"cable", "cord", "wire", "connector"},
      {"charger", "adapter", "power supply", "battery"},
      {"light", "lamp", "led", "bulb", "lighting"},
      {"tool", "equipment", "instrument", "device"}>>

\* any(any(t in item or item in t for item in group) for t in types)
InGroup(types, group) ==
    \E ty \in types : \E group_item \in group :
        py_in(ty, group_item) \/ py_in(group_item, ty)

_check_related_product_types(amazon_types, target_types) ==
    IF \E g \in 1..Len(related_groups) :
          InGroup(amazon_types, related_groups[g]) /\ InGroup(target_types, related_groups[g])
    THEN (scoring_weights.category_match * 7) \div 10
    ELSE 0

_check_category_match(amazon, target) ==
    LET amazon_cats == _extract_categories(amazon)
        target_cats == _extract_categories(target)
        amazon_title == py_lower(_extract_text_safely(amazon, title_paths_amazon))
        target_title == py_lower(_extract_text_safely(target, title_paths_target))
        amazon_product_type == _extract_product_type_keywords(amazon_title)
        target_product_type == _extract_product_type_keywords(target_title)
    IN  IF amazon_cats \cap target_cats # {}
        THEN scoring_weights.category_match
        ELSE IF amazon_product_type # {} /\ target_product_type # {}
             THEN IF amazon_product_type \cap target_product_type # {}
                  THEN scoring_weights.category_match
                  ELSE _check_related_product_types(amazon_product_type,
                                                    target_product_type)
             ELSE 0

color_paths == <<"variations.color", "specifications.color", "product_details.color">>

RECURSIVE ExtractColorFrom(_, _)
\* the first truthy value, as <<found, str(value).lower()>>
ExtractColorFrom(product, i) ==
    IF i > Len(color_paths) THEN <<FALSE, "">>
    ELSE LET color_data == _get_nested_value(product, color_paths[i])
         IN  IF Truthy(color_data) THEN <<TRUE, py_lower(py_str(color_data))>>
             ELSE ExtractColorFrom(product, i + 1)

_extract_color(product) == ExtractColorFrom(product, 1)

_check_color_match(amazon, target) ==
    LET amazon_color == _extract_color(amazon)
        target_color == _extract_color(target)
    IN  IF /\ amazon_color[1] /\ amazon_color[2] # ""
           /\ target_color[1] /\ target_color[2] # ""
           /\ amazon_color[2] = target_color[2]
        THEN scoring_weights.color_match
        ELSE 0

_extract_materials(product) ==
    CollectFrom(product,
        <<"specifications.material", "product_details.materials",
          "technical_specs.specifications.material">>, 1, {})

_check_material_match(amazon, target) ==
    IF _extract_materials(amazon) \cap _extract_materials(target) # {}
    THEN scoring_weights.material_match
    ELSE 0

feature_paths == <<"specifications", "product_details.highlights",
                   "technical_specs.specifications">>

\* the strings a value at a feature path adds: the lowered keys and str(values)
\* of a dict, the lowered str(items) of a list, nothing for another value
FeatureStrings(x) ==
    IF x.t = "dict"
    THEN {py_lower(x.v[i][1]) : i \in 1..Len(x.v)}
         \cup {py_lower(py_str(x.v[i][2])) : i \in 1..Len(x.v)}
    ELSE IF x.t = "list" THEN {py_lower(py_str(x.v[i])) : i \in 1..Len(x.v)}
    ELSE {}

RECURSIVE FeaturesFrom(_, _, _)
FeaturesFrom(product, i, acc) ==
    IF i > Len(feature_paths) THEN acc
    ELSE LET feat_data == _get_nested_value(product, feature_paths[i])
         IN  FeaturesFrom(product, i + 1,
                 IF Truthy(feat_data) THEN acc \cup FeatureStrings(feat_data) ELSE acc)

_extract_features(product) ==
    {f \in FeaturesFrom(product, 1, {}) : Len(f) > 3 /\ ~py_isdigit(f)}

_check_feature_keywords(amazon, target) ==
    LET amazon_features == _extract_features(amazon)
        target_features == _extract_features(target)
    IN  IF amazon_features = {} \/ target_features = {} THEN 0
        ELSE Cardinality(amazon_features \cap target_features)
             * scoring_weights.feature_keyword

primary_types ==
    {"electronics", "electronic", "digital", "smart", "wireless", "bluetooth",
     "phone", "smartphone", "mobile", "iphone", "android", "cell",
     "laptop", "computer", "pc", "desktop", "notebook", "macbook",
     "tablet", "ipad", "kindle", "e-reader",
     "headphone", "headphones", "headset", "earphones", "earbuds",
     "speaker", "speakers", "soundbar", "audio", "bluetooth speaker",
     "mouse", "keyboard", "monitor", "display", "screen",
     "camera", "webcam", "gopro", "camcorder",
     "watch", "smartwatch", "fitness", "tracker", "fitbit", "apple watch",
     "charger", "cable", "adapter", "power", "battery", "charging",
     "chair", "table", "desk", "bed", "sofa", "couch", "dresser", "cabinet",
     "office", "gaming", "ergonomic", "executive", "task", "swivel",
     "dining", "coffee", "side", "end", "nightstand", "bookshelf",
     "shirt", "pants", "dress", "jacket", "shoes", "boots", "sneakers",
     "bag", "backpack", "purse", "wallet", "belt", "hat", "cap",
     "jewelry", "necklace", "bracelet", "ring",
     "kitchen", "cooking", "baking",
     "pot", "pan", "knife", "spoon", "fork", "plate", "bowl", "cup", "mug",
     "blender", "mixer", "toaster", "microwave", "oven", "refrigerator",
     "sports", "outdoor", "camping", "hiking", "running",
     "bike", "bicycle", "skateboard", "scooter",
     "ball", "basketball", "football", "soccer", "tennis", "baseball",
     "tool", "tools", "drill", "saw", "hammer", "screwdriver", "wrench",
     "kit", "set", "toolbox", "hardware", "equipment",
     "book", "books", "novel", "textbook", "magazine", "comic",
     "movie", "dvd", "blu-ray", "cd", "vinyl", "record",
     "game", "games", "video game", "board game", "puzzle",
     "health", "beauty", "skincare", "makeup", "cosmetic",
     "shampoo", "soap", "lotion", "cream", "serum",
     "vitamin", "supplement", "medicine", "first aid",
     "car", "auto", "automotive", "vehicle", "truck", "motorcycle",
     "tire", "wheel", "oil", "parts", "accessory"}

_extract_universal_product_types(title) ==
    LET words == py_split(py_lower(title))
    IN  {words[i] : i \in {j \in 1..Len(words) : words[j] \in primary_types}}
        \cup {words[i] \o " " \o words[i + 1] :
                 i \in {j \in 1..(Len(words) - 1) :
                           (words[j] \o " " \o words[j + 1]) \in primary_types}}

\* compatibility_groups, in the order of the dict: each main category is the
\* set of its <<subcategory, items>>
compatibility_groups ==
    <<{<<"mobile_devices", {"phone", "smartphone", "mobile", "iphone", "android",
                            "cell", "tablet", "ipad"}>>,
       <<"computers", {"laptop", "computer", "pc", "desktop", "notebook", "macbook"}>>,
       <<"audio", {"headphone", "headphones", "headset", "earphones", "earbuds",
                   "speaker", "speakers", "soundbar", "audio"}>>,
       <<"peripherals", {"mouse", "keyboard", "monitor", "display", "screen"}>>,
       <<"accessories", {"charger", "cable", "adapter", "power", "battery",
                         "charging", "case"}>>,
       <<"wearables", {"watch", "smartwatch", "fitness", "tracker", "fitbit"}>>},
      {<<"seating", {"chair", "sofa", "couch", "bench", "stool", "seat"}>>,
       <<"tables", {"table", "desk", "dining", "coffee", "side", "end", "nightstand"}>>,
       <<"office", {"office", "desk", "chair", "gaming", "ergonomic", "executive",
                    "task"}>>,
       <<"storage", {"dresser", "cabinet", "bookshelf", "shelf", "rack"}>>},
      {<<"clothing", {"shirt", "pants", "dress", "jacket", "clothes"}>>,
       <<"footwear", {"shoes", "boots", "sneakers", "sandals"}>>,
       <<"accessories", {"bag", "backpack", "purse", "wallet", "belt", "hat", "cap"}>>},
      {<<"cookware", {"pot", "pan", "skillet", "wok"}>>,
       <<"utensils", {"knife", "spoon", "fork", "spatula"}>>,
       <<"appliances", {"blender", "mixer", "toaster", "microwave", "oven"}>>,
       <<"dinnerware", {"plate", "bowl", "cup", "mug", "glass"}>>}>>

\* set(' '.join(types).split())
WordsOfTypes(types) == UNION {SeqToSet(py_split(ty)) : ty \in types}

_check_semantic_similarity(amazon_types, target_types) ==
    LET overlap == WordsOfTypes(amazon_types) \cap WordsOfTypes(target_types)
    IN  IF overlap # {} THEN Min(Cardinality(overlap) * 5, 15) ELSE 0

\* the subcategories of a main category that hold one of the types
SubcatsOf(subcategories, types) ==
    {sc[1] : sc \in {x \in subcategories : x[2] \cap types # {}}}

RECURSIVE CompatibilityFrom(_, _, _)
\* the loop over compatibility_groups.items(), from main category g on
CompatibilityFrom(amazon_types, target_types, g) ==
    IF g > Len(compatibility_groups)
    THEN _check_semantic_similarity(amazon_types, target_types)
    ELSE LET amazon_matches == SubcatsOf(compatibility_groups[g], amazon_types)
             target_matches == SubcatsOf(compatibility_groups[g], target_types)
         IN  IF amazon_matches \cap target_matches # {} THEN 30
             ELSE IF amazon_matches # {} /\ target_matches # {} THEN 20
             ELSE CompatibilityFrom(amazon_types, target_types, g + 1)

\* variant: without the test for a type in common
_calculate_product_type_compatibility_no_direct(amazon_types, target_types) ==
    CompatibilityFrom(amazon_types, target_types, 1)

_calculate_product_type_compatibility(amazon_types, target_types) ==
    IF amazon_types \cap target_types # {} THEN 35
    ELSE CompatibilityFrom(amazon_types, target_types, 1)

_check_furniture_compatibility(amazon, target) ==
    LET amazon_title == py_lower(_extract_text_safely(amazon, title_paths_amazon))
        target_title == py_lower(_extract_text_safely(target, title_paths_target))
        amazon_types == _extract_universal_product_types(amazon_title)
        target_types == _extract_universal_product_types(target_title)
    IN  IF amazon_types = {} \/ target_types = {} THEN 0
        ELSE _calculate_product_type_compatibility(amazon_types, target_types)

\* variant: the bands of a table that puts High at 100 and Very High at 150
get_confidence_level_high_at_100(score) ==
    IF score >= 150 THEN "Very High"
    ELSE IF score >= 100 THEN "High"
    ELSE IF score >= 50 THEN "Medium"
    ELSE IF score >= 25 THEN "Low"
    ELSE IF score >= 10 THEN "Very Low"
    ELSE "No Match"

get_confidence_level(score) ==
    IF score >= 120 THEN "Very High"
    ELSE IF score >= 80 THEN "High"
    ELSE IF score >= 50 THEN "Medium"
    ELSE IF score >= 25 THEN "Low"
    ELSE IF score >= 10 THEN "Very Low"
    ELSE "No Match"

\* the twelve comparator calls of calculate_match_score, in order, each with
\* the breakdown key its score is stored under
SignalScores(amazon, target) ==
    << <<"upc_match", _check_upc_match(amazon, target)>>,
       <<"model_match", _check_model_match(amazon, target)>>,
       <<"brand_match", _check_brand_match(amazon, target)>>,
       <<"title_similarity", _check_title_similarity(amazon, target)>>,
       <<"dimensions_match", _check_dimensions_match(amazon, target)>>,
       <<"weight_match", _check_weight_match(amazon, target)>>,
       <<"price_match", _check_price_match(amazon, target)>>,
       <<"category_match", _check_category_match(amazon, target)>>,
       <<"color_match", _check_color_match(amazon, target)>>,
       <<"material_match", _check_material_match(amazon, target)>>,
       <<"feature_keywords", _check_feature_keywords(amazon, target)>>,
       <<"product_compatibility", _check_furniture_compatibility(amazon, target)>> >>

\* one "if score > 0: total_score += score; score_breakdown[key] = score"
\* variant: the feature keyword score is added to the total and not recorded
AddSignal_unrecorded(acc, signal) ==
    IF signal[2] > 0
    THEN [total |-> acc.total + signal[2],
          breakdown |-> IF signal[1] = "feature_keywords" THEN acc.breakdown
                        ELSE Append(acc.breakdown, signal)]
    ELSE acc

\* variant: the "if score > 0" guard is missing, every signal is recorded
AddSignal_records_zero(acc, signal) ==
    [total |-> acc.total + signal[2], breakdown |-> Append(acc.breakdown, signal)]

AddSignal(acc, signal) ==
    IF signal[2] > 0
    THEN [total |-> acc.total + signal[2],
          breakdown |-> Append(acc.breakdown, signal)]
    ELSE acc

RECURSIVE AddSignalsFrom(_, _, _)
AddSignalsFrom(signals, i, acc) ==
    IF i > Len(signals) THEN acc
    ELSE AddSignalsFrom(signals, i + 1, AddSignal(acc, signals[i]))

\* returns [total, breakdown]; the breakdown is the sequence of its
\* <<key, score>> items in insertion order
calculate_match_score(amazon, target) ==
    AddSignalsFrom(SignalScores(amazon, target), 1, [total |-> 0, breakdown |-> <<>>])

(***************************************************************************)
(* Inputs of the scorer                                                    *)
(***************************************************************************)
MaxPriceDelta == 26
MaxWeightDelta == 12

\* the two records of test_scoring_system
amazon_sample ==
    Dict(<< <<"title", StrV("Home Office Chair Ergonomic Desk Chair Mesh Computer Chair")>>,
            <<"brand", StrV("BestOffice")>>,
            <<"pricing", Dict(<< <<"current_price", StrV("38.97")>> >>)>>,
            <<"specifications", Dict(<< <<"model_number", StrV("BO-001")>>,
                                        <<"upc", StrV("123456789012")>> >>)>> >>)

target_sample ==
    Dict(<< <<"basic_info", Dict(<< <<"name", StrV("Home Office Chair Ergonomic Desk Chair")>>,
                                    <<"brand", StrV("BestOffice")>>,
                                    <<"upc", StrV("123456789012")>>,
                                    <<"model_number", StrV("BO-001")>> >>)>>,
            <<"pricing", Dict(<< <<"formatted_current_price", StrV("$39.99")>> >>)>> >>)

\* records in the shape the Amazon extractor returns
amazon_chair ==
    Dict(<< <<"title", StrV("Ergonomic Office Chair with Lumbar Support, Black")>>,
            <<"brand", StrV("Best Office")>>,
            <<"asin", StrV("B00FS3VJAO")>>,
            <<"pricing", Dict(<< <<"current_price", StrV("$41.50")>> >>)>>,
            <<"categories", List(<<StrV("Furniture"), StrV("Chairs")>>)>>,
            <<"specifications", Dict(<< <<"color", StrV("Black")>>,
                                        <<"material", StrV("Mesh")>>,
                                        <<"weight", StrV("10.9")>>,
                                        <<"model_number", StrV("BO-0012")>>,
                                        <<"dimensions", Dict(<< <<"length", StrV("20")>>,
                                                                <<"width", StrV("20.5")>> >>)>> >>)>> >>)

amazon_watch ==
    Dict(<< <<"title", StrV("Smart Watch Fitness Tracker")>>,
            <<"brand", StrV("Sony")>>,
            <<"identifiers", Dict(<< <<"upc", StrV("012345678905")>> >>)>>,
            <<"pricing", Dict(<< <<"price", FloatV(12000)>> >>)>>,
            <<"physical_attributes", Dict(<< <<"weight", FloatV(50)>>,
                                             <<"length", IntV(4)>>,
                                             <<"width", IntV(4)>>,
                                             <<"height", IntV(1)>> >>)>> >>)

amazon_stool ==
    Dict(<< <<"title", StrV("Bar Stool")>>,
            <<"specifications", Dict(<< <<"Material", StrV("Steel")>> >>)>> >>)

\* records in the shape the Target extractor returns
target_chair ==
    Dict(<< <<"basic_info", Dict(<< <<"name", StrV("Ergonomic Office Chair")>>,
                                    <<"brand", StrV("BestOffice")>>,
                                    <<"tcin", StrV("1001689724")>>,
                                    <<"model_number", StrV("BO-001")>> >>)>>,
            <<"pricing", Dict(<< <<"current_price", FloatV(3999)>> >>)>>,
            <<"category_info", Dict(<< <<"category_name", StrV("Chairs")>> >>)>>,
            <<"product_details", Dict(<< <<"color", StrV("black")>>,
                                         <<"materials", List(<<StrV("mesh"), StrV("steel")>>)>>,
                                         <<"highlights", List(<<StrV("Mesh"), StrV("Black")>>)>> >>)>>,
            <<"technical_specs", Dict(<< <<"specifications",
                  Dict(<< <<"weight", StrV("10.0")>>, <<"length", IntV(20)>>,
                          <<"width", IntV(20)>> >>)>> >>)>> >>)

target_watch ==
    Dict(<< <<"basic_info", Dict(<< <<"name", StrV("Smart Watch Band")>>,
                                    <<"brand", StrV("Sony Group")>>,
                                    <<"upc", StrV("012345678905")>> >>)>>,
            <<"pricing", Dict(<< <<"current_price", StrV("1,250.00")>> >>)>>,
            <<"physical_attributes", Dict(<< <<"weight", StrV("0.5")>>,
                                             <<"length", FloatV(400)>>,
                                             <<"width", FloatV(410)>> >>)>> >>)

target_stool ==
    Dict(<< <<"basic_info", Dict(<< <<"name", StrV("Counter Stool")>> >>)>>,
            <<"technical_specs", Dict(<< <<"specifications",
                  Dict(<< <<"gtin", StrV("00012345678905")>>,
                          <<"material", StrV("Steel")>> >>)>> >>)>> >>)

SampleRecords ==
    <<EmptyDict, amazon_sample, target_sample, amazon_chair, target_chair,
      amazon_watch, target_watch, amazon_stool, target_stool>>

\* a record whose only attribute is the value x at a dotted path
Only(path, x) ==
    LET ks == py_split_dot(path)
    IN  IF Len(ks) = 1 THEN Dict(<< <<ks[1], x>> >>)
        ELSE IF Len(ks) = 2 THEN Dict(<< <<ks[1], Dict(<< <<ks[2], x>> >>)>> >>)
        ELSE Dict(<< <<ks[1], Dict(<< <<ks[2], Dict(<< <<ks[3], x>> >>)>> >>)>> >>)

PriceOnly(p) == Only("pricing.current_price", IntV(p))
WeightOnly(h) == Only("physical_attributes.weight", FloatV(h))

SamplePairs ==
    {<<SampleRecords[i], SampleRecords[j]>> :
        i \in 1..Len(SampleRecords), j \in 1..Len(SampleRecords)}

\* records that carry only a price: 100 against 100 .. 100 + MaxPriceDelta
PricePairs ==
    UNION {{<<PriceOnly(100), PriceOnly(100 + d)>>,
            <<PriceOnly(100 + d), PriceOnly(100)>>} : d \in 0..MaxPriceDelta}

\* records that carry only a weight: 10.0 against 10.0 .. 10.0 + MaxWeightDelta/10
WeightPairs ==
    UNION {{<<WeightOnly(1000), WeightOnly(1000 + 10 * k)>>,
            <<WeightOnly(1000 + 10 * k), WeightOnly(1000)>>} : k \in 0..MaxWeightDelta}

\* records that carry only a title, at either title path of each side
TitlePairs ==
    {<<Only(pa, StrV("gaming chair")), Only(pt, StrV("office chair"))>> :
        pa \in SeqToSet(title_paths_amazon), pt \in SeqToSet(title_paths_target)}

\* a source record and a target record that carry only a title
TitleOnlyPair(a, b) == <<Only("title", StrV(a)), Only("basic_info.name", StrV(b))>>

\* titles whose product types meet in a subcategory, in a main category only,
\* in two main categories, in a type, or not at all
CompatibilityPairs ==
    {TitleOnlyPair("phone chair", "laptop sofa"),
     TitleOnlyPair("phone chair", "tablet sofa"),
     TitleOnlyPair("sofa", "couch"),
     TitleOnlyPair("chair", "table"),
     TitleOnlyPair("video game", "board game"),
     TitleOnlyPair("first aid", "first novel")}

\* records that carry only a model number: equal, one inside the other with
\* the shorter on either side, and different
ModelPairs ==
    {<<Only("specifications.model_number", StrV(pair[1])),
       Only("basic_info.model_number", StrV(pair[2]))>> :
        pair \in {<<"ABCD", "abcd">>, <<"ABCD", "BC">>, <<"BC", "ABCD">>,
                  <<"ABCD", "ABCDE">>, <<"ABCD", "WXYZ">>}}

\* records that carry only an identifier, the same on both sides: nine
\* digits, eight digits, nine letters
IdentifierPairs ==
    {<<Only("specifications.upc", StrV(upc)), Only("basic_info.upc", StrV(upc))>> :
        upc \in {"123456789", "12345678", "ABCDEFGHI"}}

\* titles whose first words are two members of one related group, a word
\* inside a member ('top' in 'laptop') and a member, and words of no group
CategoryPairs ==
    {TitleOnlyPair("chair", "stool"),
     TitleOnlyPair("top hat", "notebook cover"),
     TitleOnlyPair("hat", "chair")}

\* titles with every, some, one and no word in common after normalisation:
\* with punctuation, capitals, short words and noise words; with one word in
\* common among eleven; with four words in common among ten
TitleSignalPairs ==
    {TitleOnlyPair("desk lamp", "desk lamp"),
     TitleOnlyPair("The Lamp, for a Desk!", "lamp desk"),
     TitleOnlyPair("red lamp", "red vase"),
     TitleOnlyPair("lamp", "lamp shade"),
     TitleOnlyPair("lamp brass antique floor reading tall",
                   "lamp kids star night plastic blue"),
     TitleOnlyPair("brass lamp", "wool rug"),
     TitleOnlyPair("oak desk lamp shade red tall slim",
                   "oak desk lamp shade blue wide flat"),
     TitleOnlyPair("lamp for the desk", "rug for the hall"),
     TitleOnlyPair("an ox", "an ox")}

\* records that carry only a brand: equal but for case and blanks, two
\* entries of one row of the alias table, initials on either side, one inside
\* the other with more than 3 and with 3 characters, and unrelated
BrandPairs ==
    {<<Only("brand", StrV(pair[1])), Only("basic_info.brand", StrV(pair[2]))>> :
        pair \in {<<" Sony ", "SONY">>, <<"hp", "Hewlett Packard">>,
                  <<"amazon", "basics">>, <<"General Electric", "GE">>,
                  <<"GE", "General Electric">>, <<"abcd", "abcde">>,
                  <<"abc", "abcd">>, <<"nike", "adidas">>}}

\* d[k1][k2].. = x, creating the dicts on the way (d is a dict)
RECURSIVE SetPath(_, _, _)
SetPath(d, ks, x) ==
    LET k == Head(ks)
        sub == IF Len(ks) = 1 THEN x
               ELSE SetPath(IF HasKey(d, k) THEN GetKey(d, k) ELSE EmptyDict,
                            Tail(ks), x)
    IN  IF HasKey(d, k)
        THEN Dict([i \in 1..Len(d.v) |->
                      IF d.v[i][1] = k THEN <<k, sub>> ELSE d.v[i]])
        ELSE Dict(Append(d.v, <<k, sub>>))

\* the path can be set: every value met on the way is a dict
RECURSIVE CanSetPath(_, _)
CanSetPath(d, ks) ==
    IF d.t # "dict" THEN FALSE
    ELSE IF Len(ks) = 1 \/ ~HasKey(d, Head(ks)) THEN TRUE
    ELSE CanSetPath(GetKey(d, Head(ks)), Tail(ks))

WithUpc(product, path, upc) == SetPath(product, py_split_dot(path), StrV(upc))

\* the office-chair scenario: identifier, brand, title and price on both
\* sides, each at a path the scorer reads on that side
ScenarioUpc == "012345678905"

ScenarioSource(upc_path, price_path) ==
    WithUpc(SetPath(Dict(<< <<"title", StrV("Home Office Chair Ergonomic Desk Chair Mesh Computer Chair")>>,
                            <<"brand", StrV("BestOffice")>> >>),
                    py_split_dot(price_path), StrV("38.97")),
            upc_path, ScenarioUpc)

ScenarioTarget(upc_path, price_path) ==
    WithUpc(SetPath(Dict(<< <<"basic_info",
                              Dict(<< <<"name", StrV("Home Office Chair Ergonomic Desk Chair")>>,
                                      <<"brand", StrV("BestOffice")>> >>)>> >>),
                    py_split_dot(price_path), StrV("$39.99")),
            upc_path, ScenarioUpc)

ScenarioPairs ==
    {<<ScenarioSource(ua, pp[1]), ScenarioTarget(ut, pp[2])>> :
        ua \in SeqToSet(amazon_upc_paths), ut \in SeqToSet(target_upc_paths),
        pp \in {<<"pricing.current_price", "pricing.formatted_current_price">>,
                <<"pricing.price", "pricing.current_price">>}}

\* the leaf paths _extract_weight, _extract_price and _extract_dimensions read
NumericPaths ==
    SeqToSet(weight_paths) \cup SeqToSet(price_paths)
    \cup {dim_paths[i] \o ".length" : i \in 1..Len(dim_paths)}

\* a record with a usable weight, price and dimensions, each at the last
\* candidate path of its extractor
FallbackRecord ==
    Dict(<< <<"technical_specs", Dict(<< <<"specifications",
                Dict(<< <<"weight", FloatV(1000)>>, <<"length", IntV(1)>>,
                        <<"width", IntV(2)>>, <<"height", IntV(3)>> >>)>> >>)>>,
            <<"pricing", Dict(<< <<"price", IntV(100)>> >>)>> >>)

\* strings float() rejects; the price pattern finds a number in the first only
MalformedValues == {StrV("10 lbs"), StrV("unknown")}

\* one malformed value at one numeric path, alone or beside usable values at
\* later paths, against a record whose numeric attributes are all usable
MalformedPairs ==
    UNION {{<<SetPath(base, py_split_dot(path), x), FallbackRecord>>,
            <<FallbackRecord, SetPath(base, py_split_dot(path), x)>>} :
        base \in {EmptyDict, FallbackRecord}, path \in NumericPaths,
        x \in MalformedValues}

\* the same identifier at two of the paths _check_upc_match reads on one side
TwoPathPairs ==
    {<<WithUpc(WithUpc(EmptyDict, "specifications.upc", ScenarioUpc),
               "identifiers.upc", ScenarioUpc),
       WithUpc(EmptyDict, "basic_info.upc", ScenarioUpc)>>,
     <<WithUpc(EmptyDict, "specifications.upc", ScenarioUpc),
       WithUpc(WithUpc(EmptyDict, "basic_info.upc", ScenarioUpc),
               "product_details.upc", ScenarioUpc)>>}

\* None in the place of a record, on either side or on both
NullPairs == {<<Null, target_sample>>, <<amazon_sample, Null>>, <<Null, Null>>}

\* records that carry only dimensions
DimsOnly(path, dims) == Only(path, Dict(dims))

DimensionLengths == {0, 100, 105, 106}

\* equal width and height and every pair of lengths; two records with one
\* dimension in common; dimensions at the other dimension paths
DimensionPairs ==
    {<<DimsOnly("physical_attributes",
                << <<"length", IntV(l1)>>, <<"width", IntV(50)>>, <<"height", IntV(50)>> >>),
       DimsOnly("physical_attributes",
                << <<"length", IntV(l2)>>, <<"width", IntV(50)>>, <<"height", IntV(50)>> >>)>> :
        l1 \in DimensionLengths, l2 \in DimensionLengths}
    \cup {<<DimsOnly("physical_attributes", << <<"length", IntV(100)>>, <<"width", IntV(50)>> >>),
            DimsOnly("physical_attributes", << <<"width", IntV(50)>>, <<"height", IntV(50)>> >>)>>,
          <<DimsOnly("specifications.dimensions",
                     << <<"length", StrV("100")>>, <<"width", StrV("50")>> >>),
            DimsOnly("technical_specs.specifications",
                     << <<"length", FloatV(10000)>>, <<"width", FloatV(5250)>> >>)>>,
          <<DimsOnly("physical_attributes", << <<"length", IntV(100)>> >>),
            DimsOnly("physical_attributes", << <<"length", IntV(100)>> >>)>>}

InputPairs ==
    SamplePairs \cup PricePairs \cup WeightPairs \cup TitlePairs \cup ScenarioPairs
    \cup MalformedPairs \cup TwoPathPairs \cup NullPairs \cup DimensionPairs
    \cup CompatibilityPairs \cup ModelPairs \cup IdentifierPairs \cup CategoryPairs
    \cup TitleSignalPairs \cup BrandPairs

(***************************************************************************)
(* calculate_match_score called on a pair of records, then called again    *)
(* after the same identifier was added to both records                     *)
(***************************************************************************)
UpcValues == {ScenarioUpc, "123456789"}

WorkflowIdle ==
    /\ wf_pc = "idle"
    /\ amazon_products = <<>>
    /\ target_products = <<>>
    /\ detailed_amazon_products = <<>>
    /\ detailed_target_products = <<>>
    /\ fetch_index = 1
    /\ matching_results = <<>>
    /\ report = <<>>
    /\ raised = ""

Init ==
    /\ \E pair \in InputPairs :
          /\ amazon_product = pair[1]
          /\ target_product = pair[2]
    /\ total_score = 0
    /\ score_breakdown = <<>>
    /\ confidence = ""
    /\ pc = "ready"
    /\ base_score = <<>>
    /\ WorkflowIdle
    /\ calls = <<>>

\* score, breakdown = scorer.calculate_match_score(amazon, target), then
\* scorer.get_confidence_level(score), as every caller does
Returned(result) ==
    /\ total_score' = result.total
    /\ score_breakdown' = result.breakdown
    /\ confidence' = get_confidence_level(result.total)

\* variant: the scorer stores the price it parsed back into the source record
Score_stores_price ==
    /\ pc = "ready"
    /\ Returned(calculate_match_score(amazon_product, target_product))
    /\ pc' = "returned"
    /\ amazon_product' =
          IF _extract_price(amazon_product).ok
          THEN SetPath(amazon_product, <<"pricing", "parsed_price">>,
                       FloatV(_extract_price(amazon_product).h))
          ELSE amazon_product
    /\ UNCHANGED <<target_product, base_score, workflow_vars, parallel_vars>>

Score ==
    /\ pc = "ready"
    /\ Returned(calculate_match_score(amazon_product, target_product))
    /\ pc' = "returned"
    /\ UNCHANGED <<amazon_product, target_product, base_score, workflow_vars, parallel_vars>>

NoIdentifier(amazon, target) ==
    /\ _extract_text_safely(amazon, amazon_upc_paths) = ""
    /\ _extract_text_safely(target, target_upc_paths) = ""

\* the same identifier is written into both records, each at a path
\* _check_upc_match reads on that side, and the pair is scored again
AddUpc(amazon_path, target_path, upc) ==
    /\ pc = "returned"
    /\ base_score = <<>>
    /\ NoIdentifier(amazon_product, target_product)
    /\ CanSetPath(amazon_product, py_split_dot(amazon_path))
    /\ CanSetPath(target_product, py_split_dot(target_path))
    /\ amazon_product' = WithUpc(amazon_product, amazon_path, upc)
    /\ target_product' = WithUpc(target_product, target_path, upc)
    /\ base_score' = <<total_score>>
    /\ pc' = "ready"
    /\ UNCHANGED <<total_score, score_breakdown, confidence, workflow_vars, parallel_vars>>

Next ==
    \/ Score
    \/ \E amazon_path \in SeqToSet(amazon_upc_paths),
          target_path \in SeqToSet(target_upc_paths), upc \in UpcValues :
          AddUpc(amazon_path, target_path, upc)

Spec == Init /\ [][Next]_vars

(***************************************************************************)
(* run_complete_matching_workflow.  The searches and the detail fetches    *)
(* are calls to collaborators: what they return is chosen here.  A         *)
(* MatchingResult refers to its two records: it is modelled by the pair of *)
(* their positions in the detailed lists.  Its timestamp is left out.      *)
(***************************************************************************)
MaxResults == 2

\* search results: with and without the key the detail fetch needs
AmazonSearchItems ==
    {Dict(<< <<"asin", StrV("B00FS3VJAO")>>, <<"title", StrV("Office Chair")>> >>),
     Dict(<< <<"title", StrV("Office Chair")>> >>)}

TargetSearchItems ==
    {Dict(<< <<"tcin", StrV("1001689724")>>,
             <<"product_url", StrV("https://www.target.com/p/-/A-1001689724")>> >>),
     Dict(<< <<"tcin", StrV("1001689724")>>, <<"product_url", StrV("")>> >>)}

\* a record of the Amazon extractor whose title selector matched nothing
amazon_untitled ==
    Dict(<< <<"title", Null>>, <<"brand", StrV("Sony")>>,
            <<"asin", StrV("B08KTN2NSW")>> >>)

error_result == Dict(<< <<"error", StrV("Failed to extract product")>> >>)

\* what amazon_extractor.extract_product can return
AmazonExtractResults == {amazon_chair, amazon_watch, amazon_untitled, error_result}

\* what _fetch_target_product_details can return (None: the extractor raised)
TargetFetchResults == {target_chair, target_stool, error_result, Null}

SeqsUpTo(S, n) == UNION {[1..k -> S] : k \in 0..n}

\* d.get(k), None when the key is absent
DictGet(d, k) == IF HasKey(d, k) THEN GetKey(d, k) ELSE Null

\* "if detailed_product and 'error' not in detailed_product"
Usable(detailed_product) ==
    IF Truthy(detailed_product) THEN ~HasKey(detailed_product, "error") ELSE FALSE

\* x[:50] raises for a value that is neither a string nor a list
Sliceable(x) == x.t \in {"str", "list"}

\* amazon_product.get('title', 'Unknown')[:50]
AmazonTitleError(amazon) ==
    IF HasKey(amazon, "title") /\ ~Sliceable(GetKey(amazon, "title"))
    THEN "TypeError" ELSE ""

\* target_product.get('basic_info', {}).get('name', 'Unknown')[:50]
TargetTitleError(target) ==
    IF ~HasKey(target, "basic_info") THEN ""
    ELSE IF GetKey(target, "basic_info").t # "dict" THEN "AttributeError"
    ELSE IF HasKey(GetKey(target, "basic_info"), "name")
            /\ ~Sliceable(GetKey(GetKey(target, "basic_info"), "name"))
         THEN "TypeError"
    ELSE ""

\* the first exception name of a sequence of outcomes, "" when there is none
FirstError(errors) ==
    IF \E k \in 1..Len(errors) : errors[k] # ""
    THEN errors[CHOOSE k \in 1..Len(errors) :
                    errors[k] # "" /\ \A l \in 1..(k - 1) : errors[l] = ""]
    ELSE ""

\* the title lookups of the comparison loops, in the order they run: the
\* source title once per source record, then the target title per pair
CompareErrors(amazons, targets) ==
    [k \in 1..(Len(amazons) * (Len(targets) + 1)) |->
        IF (k - 1) % (Len(targets) + 1) = 0
        THEN AmazonTitleError(amazons[((k - 1) \div (Len(targets) + 1)) + 1])
        ELSE TargetTitleError(targets[(k - 1) % (Len(targets) + 1)])]

MatchingResult(i, j, result) ==
    [pair |-> <<i, j>>,
     match_score |-> result.total,
     score_breakdown |-> result.breakdown,
     confidence |-> get_confidence_level(result.total)]

\* the comparison loops: one result per pair, source index first
CompareAll(amazons, targets) ==
    [k \in 1..(Len(amazons) * Len(targets)) |->
        MatchingResult(((k - 1) \div Len(targets)) + 1, ((k - 1) % Len(targets)) + 1,
            calculate_match_score(amazons[((k - 1) \div Len(targets)) + 1],
                                  targets[((k - 1) % Len(targets)) + 1]))]

\* variant: an element goes before the elements of equal score
SortedInsert_ties_reversed(sorted, r) ==
    SubSeq(sorted, 1, Cardinality({p \in 1..Len(sorted) :
                                      sorted[p].match_score > r.match_score}))
    \o <<r>>
    \o SubSeq(sorted, Cardinality({p \in 1..Len(sorted) :
                                      sorted[p].match_score > r.match_score}) + 1,
              Len(sorted))

\* list.sort(key=match_score, reverse=True) is stable: an element goes after
\* the elements of greater or equal score that came before it
SortedInsert(sorted, r) ==
    SubSeq(sorted, 1, Cardinality({p \in 1..Len(sorted) :
                                      sorted[p].match_score >= r.match_score}))
    \o <<r>>
    \o SubSeq(sorted, Cardinality({p \in 1..Len(sorted) :
                                      sorted[p].match_score >= r.match_score}) + 1,
              Len(sorted))

RECURSIVE SortFrom(_, _, _)
SortFrom(results, i, sorted) ==
    IF i > Len(results) THEN sorted
    ELSE SortFrom(results, i + 1, SortedInsert(sorted, results[i]))

\* variant: the list is sorted by score ascending
SortByScore_ascending(results) ==
    [k \in 1..Len(results) |-> SortFrom(results, 1, <<>>)[Len(results) + 1 - k]]

SortByScore(results) == SortFrom(results, 1, <<>>)

\* d.get(k1, {}).get(k2, ''): the value, '' when absent
Get2(d, k1, k2) ==
    IF HasKey(d, k1)
    THEN IF HasKey(GetKey(d, k1), k2) THEN GetKey(GetKey(d, k1), k2) ELSE StrV("")
    ELSE StrV("")

Get1(d, k) == IF HasKey(d, k) THEN GetKey(d, k) ELSE StrV("")

Hashable(x) == x.t \notin {"dict", "list"}

\* .get(k, {}).get(..) raises when the value at k is not a dict
NotDictError(d, k) ==
    IF HasKey(d, k) /\ GetKey(d, k).t # "dict" THEN "AttributeError" ELSE ""

UnhashableError(x) == IF Hashable(x) THEN "" ELSE "TypeError"

\* what building report_data can raise: the two sets of the summary, then
\* the price lookups of each comparison
ReportErrors(results, amazons, targets) ==
    [k \in 1..Len(results) |-> UnhashableError(Get1(amazons[results[k].pair[1]], "asin"))]
    \o [k \in 1..Len(results) |->
           UnhashableError(Get2(targets[results[k].pair[2]], "basic_info", "tcin"))]
    \o [k \in 1..(2 * Len(results)) |->
           IF k % 2 = 1
           THEN NotDictError(amazons[results[(k + 1) \div 2].pair[1]], "pricing")
           ELSE NotDictError(targets[results[(k + 1) \div 2].pair[2]], "pricing")]

\* variant: the ranks are counted from 0
Comparison_rank_from_zero(rank, r, amazon, target) ==
    [rank |-> rank - 1,
     amazon_product |-> [title |-> Get1(amazon, "title"), asin |-> Get1(amazon, "asin"),
                         brand |-> Get1(amazon, "brand"),
                         price |-> Get2(amazon, "pricing", "formatted_current_price")],
     target_product |-> [title |-> Get2(target, "basic_info", "name"),
                         tcin |-> Get2(target, "basic_info", "tcin"),
                         brand |-> Get2(target, "basic_info", "brand"),
                         price |-> Get2(target, "pricing", "formatted_current_price")],
     match_score |-> r.match_score,
     confidence |-> r.confidence,
     score_breakdown |-> r.score_breakdown]

Comparison(rank, r, amazon, target) ==
    [rank |-> rank,
     amazon_product |-> [title |-> Get1(amazon, "title"), asin |-> Get1(amazon, "asin"),
                         brand |-> Get1(amazon, "brand"),
                         price |-> Get2(amazon, "pricing", "formatted_current_price")],
     target_product |-> [title |-> Get2(target, "basic_info", "name"),
                         tcin |-> Get2(target, "basic_info", "tcin"),
                         brand |-> Get2(target, "basic_info", "brand"),
                         price |-> Get2(target, "pricing", "formatted_current_price")],
     match_score |-> r.match_score,
     confidence |-> r.confidence,
     score_breakdown |-> r.score_breakdown]

\* report_data of _generate_matching_report (search term and timestamp left out)
ReportData(results, amazons, targets) ==
    [total_comparisons |-> Len(results),
     summary |->
        [unique_amazon_products |->
            Cardinality({Get1(amazons[results[k].pair[1]], "asin") : k \in 1..Len(results)}),
         unique_target_products |->
            Cardinality({Get2(targets[results[k].pair[2]], "basic_info", "tcin") :
                            k \in 1..Len(results)}),
         best_match_score |-> IF results # <<>> THEN results[1].match_score ELSE 0,
         best_match_confidence |-> IF results # <<>> THEN results[1].confidence ELSE "None"],
     comparisons |->
        [k \in 1..Len(results) |->
            Comparison(k, results[k], amazons[results[k].pair[1]],
                       targets[results[k].pair[2]])]]

WorkflowInit ==
    /\ amazon_product = EmptyDict
    /\ target_product = EmptyDict
    /\ total_score = 0
    /\ score_breakdown = <<>>
    /\ confidence = ""
    /\ pc = "idle"
    /\ base_score = <<>>
    /\ wf_pc = "search_amazon"
    /\ amazon_products = <<>>
    /\ target_products = <<>>
    /\ detailed_amazon_products = <<>>
    /\ detailed_target_products = <<>>
    /\ fetch_index = 1
    /\ matching_results = <<>>
    /\ report = <<>>
    /\ raised = ""
    /\ calls = <<>>

\* amazon_products = self._search_amazon_products(..); return [] when empty
SearchAmazon ==
    /\ wf_pc = "search_amazon"
    /\ \E products \in SeqsUpTo(AmazonSearchItems, MaxResults) :
          /\ amazon_products' = products
          /\ wf_pc' = IF products = <<>> THEN "returned" ELSE "search_target"
    /\ UNCHANGED <<scorer_vars, parallel_vars, target_products, detailed_amazon_products,
                   detailed_target_products, fetch_index, matching_results,
                   report, raised>>

\* target_products = self._search_target_products(..); return [] when empty
SearchTarget ==
    /\ wf_pc = "search_target"
    /\ \E products \in SeqsUpTo(TargetSearchItems, MaxResults) :
          /\ target_products' = products
          /\ wf_pc' = IF products = <<>> THEN "returned" ELSE "fetch_amazon"
    /\ UNCHANGED <<scorer_vars, parallel_vars, amazon_products, detailed_amazon_products,
                   detailed_target_products, fetch_index, matching_results,
                   report, raised>>

\* the loop step: the index moves on, the phase changes after the last item
LoopStep(products, next_pc) ==
    /\ fetch_index' = IF fetch_index = Len(products) THEN 1 ELSE fetch_index + 1
    /\ wf_pc' = IF fetch_index = Len(products) THEN next_pc ELSE wf_pc

\* one turn of the Amazon detail loop: skip without asin, else fetch and keep
\* the record when it is usable
FetchAmazon ==
    /\ wf_pc = "fetch_amazon"
    /\ IF Truthy(DictGet(amazon_products[fetch_index], "asin"))
       THEN \E detailed_product \in AmazonExtractResults :
               detailed_amazon_products' =
                   IF Usable(detailed_product)
                   THEN Append(detailed_amazon_products, detailed_product)
                   ELSE detailed_amazon_products
       ELSE UNCHANGED detailed_amazon_products
    /\ LoopStep(amazon_products, "fetch_target")
    /\ UNCHANGED <<scorer_vars, parallel_vars, amazon_products, target_products,
                   detailed_target_products, matching_results, report, raised>>

\* one turn of the Target detail loop
FetchTarget ==
    /\ wf_pc = "fetch_target"
    /\ IF Truthy(DictGet(target_products[fetch_index], "product_url"))
       THEN \E detailed_product \in TargetFetchResults :
               detailed_target_products' =
                   IF Usable(detailed_product)
                   THEN Append(detailed_target_products, detailed_product)
                   ELSE detailed_target_products
       ELSE UNCHANGED detailed_target_products
    /\ LoopStep(target_products, "compare")
    /\ UNCHANGED <<scorer_vars, parallel_vars, amazon_products, target_products,
                   detailed_amazon_products, matching_results, report, raised>>

\* the workflow leaves with an exception
Raise(error, results) ==
    /\ wf_pc' = "raised"
    /\ raised' = error
    /\ matching_results' = results
    /\ UNCHANGED report

\* sort done: the report, then the line that prints matching_results[0]
ReportAndReturn(results, report_error) ==
    IF report_error # "" THEN Raise(report_error, results)
    ELSE /\ report' = <<ReportData(results, detailed_amazon_products,
                                   detailed_target_products)>>
         /\ matching_results' = results
         /\ wf_pc' = IF results = <<>> THEN "raised" ELSE "returned"
         /\ raised' = IF results = <<>> THEN "IndexError" ELSE ""

SortAndReport(results) ==
    ReportAndReturn(results, FirstError(ReportErrors(results, detailed_amazon_products,
                                                     detailed_target_products)))

\* steps 3 and 4: compare every pair, sort, report, print the best match
CompareSortReport ==
    /\ wf_pc = "compare"
    /\ IF FirstError(CompareErrors(detailed_amazon_products, detailed_target_products)) # ""
       THEN Raise(FirstError(CompareErrors(detailed_amazon_products,
                                           detailed_target_products)), <<>>)
       ELSE SortAndReport(SortByScore(CompareAll(detailed_amazon_products,
                                                 detailed_target_products)))
    /\ UNCHANGED <<scorer_vars, parallel_vars, amazon_products, target_products,
                   detailed_amazon_products, detailed_target_products, fetch_index>>

WorkflowNext ==
    \/ SearchAmazon
    \/ SearchTarget
    \/ FetchAmazon
    \/ FetchTarget
    \/ CompareSortReport

WorkflowSpec == WorkflowInit /\ [][WorkflowNext]_vars

(***************************************************************************)
(* run_amazon_url_matching_workflow: one source record, scraped from the   *)
(* URL, against the records fetched for the Target search results.  The    *)
(* source record is held as the one element of detailed_amazon_products.   *)
(***************************************************************************)
UrlWorkflowInit ==
    /\ amazon_product = EmptyDict
    /\ target_product = EmptyDict
    /\ total_score = 0
    /\ score_breakdown = <<>>
    /\ confidence = ""
    /\ pc = "idle"
    /\ base_score = <<>>
    /\ wf_pc = "url_scrape"
    /\ amazon_products = <<>>
    /\ target_products = <<>>
    /\ detailed_amazon_products = <<>>
    /\ detailed_target_products = <<>>
    /\ fetch_index = 1
    /\ matching_results = <<>>
    /\ report = <<>>
    /\ raised = ""
    /\ calls = <<>>

\* amazon_product = self._scrape_amazon_product_from_url(amazon_url), None
\* without an ASIN, for an 'error' record and after an exception; return []
\* when it is falsy; then amazon_product.get('title', 'Unknown')[:80]
ScrapeAmazonUrl ==
    /\ wf_pc = "url_scrape"
    /\ \E scraped \in AmazonExtractResults \cup {Null} :
          IF ~Usable(scraped)
          THEN /\ wf_pc' = "returned"
               /\ UNCHANGED <<detailed_amazon_products, raised>>
          ELSE IF AmazonTitleError(scraped) # ""
          THEN /\ wf_pc' = "raised"
               /\ raised' = AmazonTitleError(scraped)
               /\ UNCHANGED detailed_amazon_products
          ELSE /\ wf_pc' = "url_search_target"
               /\ detailed_amazon_products' = <<scraped>>
               /\ UNCHANGED raised
    /\ UNCHANGED <<scorer_vars, parallel_vars, amazon_products, target_products,
                   detailed_target_products, fetch_index, matching_results, report>>

\* target_products = self._search_target_products(..); return [] when empty;
\* is_using_samples says how the details are then obtained
UrlSearchTarget ==
    /\ wf_pc = "url_search_target"
    /\ \E products \in SeqsUpTo(TargetSearchItems, MaxResults),
          is_using_samples \in BOOLEAN :
          /\ target_products' = products
          /\ wf_pc' = IF products = <<>> THEN "returned"
                      ELSE IF is_using_samples THEN "url_fetch_samples"
                      ELSE "url_fetch_live"
    /\ UNCHANGED <<scorer_vars, parallel_vars, amazon_products, detailed_amazon_products,
                   detailed_target_products, fetch_index, matching_results,
                   report, raised>>

\* one turn of the Target detail loop: a sample file is kept when it is
\* truthy, a live record when it is usable
UrlFetchTarget ==
    /\ wf_pc \in {"url_fetch_samples", "url_fetch_live"}
    /\ IF wf_pc = "url_fetch_samples"
       THEN \E detailed_product \in TargetFetchResults :
               detailed_target_products' =
                   IF Truthy(detailed_product)
                   THEN Append(detailed_target_products, detailed_product)
                   ELSE detailed_target_products
       ELSE IF Truthy(DictGet(target_products[fetch_index], "product_url"))
       THEN \E detailed_product \in TargetFetchResults :
               detailed_target_products' =
                   IF Usable(detailed_product)
                   THEN Append(detailed_target_products, detailed_product)
                   ELSE detailed_target_products
       ELSE UNCHANGED detailed_target_products
    /\ LoopStep(target_products, "url_compare")
    /\ UNCHANGED <<scorer_vars, parallel_vars, amazon_products, target_products,
                   detailed_amazon_products, matching_results, report, raised>>

\* what building report_data can raise: the price of the source record,
\* the set of the summary, then the price lookup of each comparison
UrlReportErrors(results, amazons, targets) ==
    [k \in 1..(IF results = <<>> THEN 0 ELSE 1) |->
        NotDictError(amazons[results[1].pair[1]], "pricing")]
    \o [k \in 1..Len(results) |->
           UnhashableError(Get2(targets[results[k].pair[2]], "basic_info", "tcin"))]
    \o [k \in 1..Len(results) |-> NotDictError(targets[results[k].pair[2]], "pricing")]

\* report_data of _generate_url_matching_report (URL, search term and
\* timestamp left out)
UrlReportData(results, amazons, targets) ==
    [matching_type |-> "amazon_url_vs_target_search",
     total_comparisons |-> Len(results),
     amazon_product |->
        IF results # <<>>
        THEN [title |-> Get1(amazons[results[1].pair[1]], "title"),
              asin |-> Get1(amazons[results[1].pair[1]], "asin"),
              brand |-> Get1(amazons[results[1].pair[1]], "brand"),
              price |-> Get2(amazons[results[1].pair[1]], "pricing",
                             "formatted_current_price")]
        ELSE [title |-> StrV(""), asin |-> StrV(""), brand |-> StrV(""),
              price |-> StrV("")],
     summary |->
        [unique_target_products |->
            Cardinality({Get2(targets[results[k].pair[2]], "basic_info", "tcin") :
                            k \in 1..Len(results)}),
         best_match_score |-> IF results # <<>> THEN results[1].match_score ELSE 0,
         best_match_confidence |-> IF results # <<>> THEN results[1].confidence ELSE "None"],
     comparisons |->
        [k \in 1..Len(results) |->
            [rank |-> k,
             target_product |->
                [title |-> Get2(targets[results[k].pair[2]], "basic_info", "name"),
                 tcin |-> Get2(targets[results[k].pair[2]], "basic_info", "tcin"),
                 brand |-> Get2(targets[results[k].pair[2]], "basic_info", "brand"),
                 price |-> Get2(targets[results[k].pair[2]], "pricing",
                                "formatted_current_price"),
                 url |-> Get2(targets[results[k].pair[2]], "basic_info", "url")],
             match_score |-> results[k].match_score,
             confidence |-> results[k].confidence,
             score_breakdown |-> results[k].score_breakdown]]]

\* sort done: the report, then the list is returned
UrlReportAndReturn(results, report_error) ==
    IF report_error # "" THEN Raise(report_error, results)
    ELSE /\ report' = <<UrlReportData(results, detailed_amazon_products,
                                      detailed_target_products)>>
         /\ matching_results' = results
         /\ wf_pc' = "returned"
         /\ raised' = ""

UrlSortAndReport(results) ==
    UrlReportAndReturn(results,
        FirstError(UrlReportErrors(results, detailed_amazon_products,
                                   detailed_target_products)))

\* return [] without a detailed Target record; steps 4 and 5: compare the
\* source record with every Target record, sort, report
UrlCompareSortReport ==
    /\ wf_pc = "url_compare"
    /\ IF detailed_target_products = <<>>
       THEN /\ wf_pc' = "returned"
            /\ UNCHANGED <<matching_results, report, raised>>
       ELSE IF FirstError(CompareErrors(detailed_amazon_products,
                                        detailed_target_products)) # ""
       THEN Raise(FirstError(CompareErrors(detailed_amazon_products,
                                           detailed_target_products)), <<>>)
       ELSE UrlSortAndReport(SortByScore(CompareAll(detailed_amazon_products,
                                                    detailed_target_products)))
    /\ UNCHANGED <<scorer_vars, parallel_vars, amazon_products, target_products,
                   detailed_amazon_products, detailed_target_products, fetch_index>>

UrlWorkflowNext ==
    \/ ScrapeAmazonUrl
    \/ UrlSearchTarget
    \/ UrlFetchTarget
    \/ UrlCompareSortReport

\* either workflow is run
WorkflowsSpec ==
    (WorkflowInit \/ UrlWorkflowInit) /\ [][WorkflowNext \/ UrlWorkflowNext]_vars

\* the scorer called on its own or by the workflow
SystemSpec == (Init \/ WorkflowInit) /\ [][Next \/ WorkflowNext]_vars

(***************************************************************************)
(* Several calls of calculate_match_score on one ProductMatchingScorer,    *)
(* interleaved comparator by comparator.  A call owns its two arguments    *)
(* and its locals total_score and score_breakdown; the scorer object holds *)
(* scoring_weights alone, which no method assigns after __init__.          *)
(***************************************************************************)
Workers == {"w1", "w2"}

ParallelPairs ==
    {<<amazon_sample, target_sample>>, <<amazon_chair, target_chair>>,
     <<amazon_watch, target_chair>>, <<PriceOnly(100), PriceOnly(110)>>,
     <<EmptyDict, target_stool>>}

\* the frame of a call that has run none of its comparators yet
Call(pair) ==
    [amazon |-> pair[1], target |-> pair[2], step |-> 1,
     acc |-> [total |-> 0, breakdown |-> <<>>]]

ParallelInit ==
    /\ amazon_product = EmptyDict
    /\ target_product = EmptyDict
    /\ total_score = 0
    /\ score_breakdown = <<>>
    /\ confidence = ""
    /\ pc = "idle"
    /\ base_score = <<>>
    /\ WorkflowIdle
    /\ calls \in [Workers -> {Call(pair) : pair \in ParallelPairs}]

\* the comparator the call is at, and the "if score > 0" lines after it
StepSignal(call, signals) ==
    [call EXCEPT !.step = call.step + 1,
                 !.acc = AddSignal(call.acc, signals[call.step])]

\* variant: total_score is a field of the scorer, shared by the calls
ComparatorStep_shared_total(w) ==
    /\ calls[w].step <= 12
    /\ calls' = [v \in Workers |->
                    IF v = w
                    THEN StepSignal(calls[w], SignalScores(calls[w].amazon, calls[w].target))
                    ELSE [calls[v] EXCEPT !.acc.total =
                             StepSignal(calls[w], SignalScores(calls[w].amazon,
                                                               calls[w].target)).acc.total]]
    /\ UNCHANGED <<scorer_vars, workflow_vars>>

\* one call runs its next comparator
ComparatorStep(w) ==
    /\ calls[w].step <= 12
    /\ calls' = [calls EXCEPT ![w] =
                    StepSignal(calls[w], SignalScores(calls[w].amazon, calls[w].target))]
    /\ UNCHANGED <<scorer_vars, workflow_vars>>

ParallelNext == \E w \in Workers : ComparatorStep(w)

ParallelSpec == ParallelInit /\ [][ParallelNext]_vars

(***************************************************************************)
(* Properties of calculate_match_score                                     *)
(***************************************************************************)
\* score_breakdown.keys(), score_breakdown.get(key, 0), sum(score_breakdown.values())
BreakdownKeys(breakdown) == {breakdown[i][1] : i \in 1..Len(breakdown)}

BreakdownValue(breakdown, key) ==
    IF key \in BreakdownKeys(breakdown)
    THEN breakdown[CHOOSE i \in 1..Len(breakdown) : breakdown[i][1] = key][2]
    ELSE 0

RECURSIVE SumValues(_, _)
SumValues(breakdown, i) ==
    IF i > Len(breakdown) THEN 0 ELSE breakdown[i][2] + SumValues(breakdown, i + 1)

Scored(amazon, target) ==
    pc = "returned" /\ amazon_product = amazon /\ target_product = target

\* C1: for every pair of records the total that calculate_match_score returns
\* equals the sum of the values of the breakdown returned by the same call.
C1_BreakdownSum ==
    pc = "returned" => SumValues(score_breakdown, 1) = total_score

C1_Witness ==
    pc = "returned" /\ Len(score_breakdown) >= 5 /\ total_score > 100

\* C2: swapping the record passed as the source and the record passed as the
\* target does not change the total.
C2_Symmetric ==
    pc = "returned"
    => total_score = calculate_match_score(target_product, amazon_product).total

\* C3: two records whose only attribute is a price: 100 and 119 award
\* price_match = 25; 100 and 121 award nothing, the total is 0.
C3_PriceBoundary ==
    /\ Scored(PriceOnly(100), PriceOnly(119))
       => BreakdownValue(score_breakdown, "price_match") = 25
    /\ Scored(PriceOnly(100), PriceOnly(121))
       => /\ "price_match" \notin BreakdownKeys(score_breakdown)
          /\ total_score = 0

\* C4: two records carrying a numeric weight: 10.0 and 10.0 give
\* weight_match = 50, 10.0 and 10.9 give 30, 10.0 and 11.1 give nothing.
C4_WeightBoundary ==
    /\ Scored(WeightOnly(1000), WeightOnly(1000))
       => BreakdownValue(score_breakdown, "weight_match") = 50
    /\ Scored(WeightOnly(1000), WeightOnly(1090))
       => BreakdownValue(score_breakdown, "weight_match") = 30
    /\ Scored(WeightOnly(1000), WeightOnly(1110))
       => BreakdownValue(score_breakdown, "weight_match") = 0

\* C5: when no identifier is resolved on either side, adding the same UPC (a
\* digit string of at least 9 characters) to both records, at a path the
\* scorer reads on that side, raises the total by exactly 100 and makes
\* breakdown['upc_match'] equal to 100.
C5_UpcMonotone ==
    (pc = "returned" /\ base_score # <<>>)
    => /\ total_score = base_score[1] + 100
       /\ BreakdownValue(score_breakdown, "upc_match") = 100

\* C6: two records that carry only a title, 'gaming chair' on the source and
\* 'office chair' on the target, fire only the category, product
\* compatibility and title signals, and the total stays below 80, the
\* confidence below High.
C6_LooseTitles ==
    (pc = "returned" /\ <<amazon_product, target_product>> \in TitlePairs)
    => /\ BreakdownKeys(score_breakdown)
            \subseteq {"category_match", "product_compatibility", "title_similarity"}
       /\ total_score < 80
       /\ get_confidence_level(total_score) \notin {"High", "Very High"}

\* C7: the office-chair scenario (same identifier 012345678905 and brand
\* BestOffice on both sides, the two titles, prices 38.97 and 39.99) yields
\* upc_match = 100, brand_match = 40, a nonzero title_similarity,
\* price_match = 25, a total of at least 165 and confidence Very High.  The
\* attributes sit at paths the scorer reads, as in test_scoring_system.
C7_Scenario ==
    (pc = "returned" /\ <<amazon_product, target_product>> \in ScenarioPairs)
    => /\ BreakdownValue(score_breakdown, "upc_match") = 100
       /\ BreakdownValue(score_breakdown, "brand_match") = 40
       /\ BreakdownValue(score_breakdown, "title_similarity") > 0
       /\ BreakdownValue(score_breakdown, "price_match") = 25
       /\ total_score >= 165
       /\ get_confidence_level(total_score) = "Very High"

C7_Witness ==
    Scored(ScenarioSource("identifiers.gtin", "pricing.price"),
           ScenarioTarget("product_details.upc", "pricing.current_price"))

\* C10: a record with no fields at all, on either side, scores total 0 with
\* an empty breakdown against any other record.  The call returns: every
\* extractor of the scorer catches what its lookups raise, so Score is
\* enabled for every pair of records.
C10_EmptyRecord ==
    (pc = "returned" /\ (amazon_product = EmptyDict \/ target_product = EmptyDict))
    => total_score = 0 /\ score_breakdown = <<>>

C10_Witness ==
    \/ Scored(EmptyDict, target_chair)
    \/ Scored(amazon_chair, EmptyDict)

(***************************************************************************)
(* Properties of run_complete_matching_workflow                            *)
(***************************************************************************)
\* every search result had its details fetched, and there is one at least
\* on each side
AllFetched ==
    /\ Len(amazon_products) >= 1
    /\ Len(target_products) >= 1
    /\ Len(detailed_amazon_products) = Len(amazon_products)
    /\ Len(detailed_target_products) = Len(target_products)

\* pair p was compared before pair q: source index first, then target index
ComparedBefore(p, q) == p[1] < q[1] \/ (p[1] = q[1] /\ p[2] < q[2])

C9_EmptyReturnsEmpty ==
    (/\ wf_pc \in {"returned", "raised"}
     /\ \/ amazon_products = <<>>
        \/ target_products = <<>>
        \/ detailed_amazon_products = <<>>
        \/ detailed_target_products = <<>>)
    => wf_pc = "returned" /\ matching_results = <<>>

(***************************************************************************)
(* Properties of the numeric extractors                                    *)
(***************************************************************************)
\* the record without the key at the end of the path
RECURSIVE DelPath(_, _)
DelPath(d, ks) ==
    IF d.t # "dict" \/ ~HasKey(d, Head(ks)) THEN d
    ELSE IF Len(ks) = 1
         THEN Dict(SelectSeq(d.v, LAMBDA item : item[1] # Head(ks)))
    ELSE Dict([i \in 1..Len(d.v) |->
                  IF d.v[i][1] = Head(ks)
                  THEN <<Head(ks), DelPath(d.v[i][2], Tail(ks))>> ELSE d.v[i]])

\* the value at a numeric path is present and cannot be coerced to a number
Malformed(product, path) ==
    LET x == _get_nested_value(product, path)
    IN  /\ Truthy(x)
        /\ IF path \in SeqToSet(price_paths)
           THEN ~SearchPrice(py_remove_commas(py_str(x))).ok
           ELSE ~py_float(x).ok

BreakdownWithout(breakdown, key) == SelectSeq(breakdown, LAMBDA item : item[1] # key)

RECURSIVE FirstUsable(_, _, _)
\* the value at the first of the candidate paths that holds a non-empty
\* string, stripped and lower-cased; "" (absent) when no path holds one
FirstUsable(product, keys, i) ==
    IF i > Len(keys) THEN ""
    ELSE LET value == WalkGet(product, py_split_dot(keys[i]))
         IN  IF Truthy(value) /\ value.t = "str" THEN py_lower(py_strip(value.v))
             ELSE FirstUsable(product, keys, i + 1)

\* C12: the field resolver returns the value found at the first candidate
\* path that yields a usable value and ignores all later paths; it returns
\* absent only when every candidate path fails.
C12_FirstUsablePath ==
    pc = "returned" =>
        /\ \A keys \in {amazon_upc_paths, title_paths_amazon} :
              _extract_text_safely(amazon_product, keys)
              = FirstUsable(amazon_product, keys, 1)
        /\ \A keys \in {target_upc_paths, title_paths_target} :
              _extract_text_safely(target_product, keys)
              = FirstUsable(target_product, keys, 1)

(***************************************************************************)
(* Properties of get_confidence_level                                      *)
(***************************************************************************)
\* the confidence bands, lowest first
ConfidenceBands == <<"No Match", "Very Low", "Low", "Medium", "High", "Very High">>

BandRank(band) == CHOOSE i \in 1..Len(ConfidenceBands) : ConfidenceBands[i] = band

\* C13: the label of a score is Very High from 120, High from 80, Medium from
\* 50, Low from 25, Very Low from 10 and No Match below; it depends on the
\* score alone, and no lower score has a higher band.
C13_ConfidenceBands ==
    pc = "returned" =>
        /\ confidence \in SeqToSet(ConfidenceBands)
        /\ confidence = "Very High" <=> total_score >= 120
        /\ confidence = "High" <=> (total_score >= 80 /\ total_score < 120)
        /\ confidence = "Medium" <=> (total_score >= 50 /\ total_score < 80)
        /\ confidence = "Low" <=> (total_score >= 25 /\ total_score < 50)
        /\ confidence = "Very Low" <=> (total_score >= 10 /\ total_score < 25)
        /\ confidence = "No Match" <=> total_score < 10
        /\ \A lower \in 0..total_score :
              BandRank(get_confidence_level(lower)) <= BandRank(confidence)

\* a scored pair whose total lies inside the High band
C13_Witness ==
    /\ pc = "returned"
    /\ total_score = 85
    /\ confidence = "High"

(***************************************************************************)
(* Properties of the detail fetch loops                                    *)
(***************************************************************************)
\* a candidate of a search was left out: it had no asin or url, or its
\* detail fetch failed
SomeSkipped ==
    \/ Len(detailed_amazon_products) < Len(amazon_products)
    \/ Len(detailed_target_products) < Len(target_products)

\* C14: when candidates are left out for a failed detail fetch or a missing
\* id or url, the batch still continues: the run ends by returning the list
\* that holds exactly one result for every pair of fetched records.  Runs
\* whose fetched records make the title lookups of the comparison loop raise
\* are set aside.
C14_SkipAndContinue ==
    (/\ wf_pc \in {"returned", "raised"}
     /\ amazon_products # <<>>
     /\ target_products # <<>>
     /\ SomeSkipped
     /\ FirstError(CompareErrors(detailed_amazon_products,
                                 detailed_target_products)) = "")
    => /\ wf_pc = "returned"
       /\ Len(matching_results)
            = Len(detailed_amazon_products) * Len(detailed_target_products)
       /\ \A i \in 1..Len(detailed_amazon_products),
             j \in 1..Len(detailed_target_products) :
             \E k \in 1..Len(matching_results) : matching_results[k].pair = <<i, j>>

(***************************************************************************)
(* Properties of the breakdown                                             *)
(***************************************************************************)
\* the twelve signal names
SignalNames ==
    {"upc_match", "model_match", "brand_match", "title_similarity",
     "dimensions_match", "weight_match", "price_match", "category_match",
     "color_match", "material_match", "feature_keywords", "product_compatibility"}

\* C15: the keys of the returned breakdown are among the twelve signal
\* names, and every value in it is strictly greater than 0: a signal that
\* contributes 0 has no entry.
C15_BreakdownEntries ==
    pc = "returned" =>
        /\ BreakdownKeys(score_breakdown) \subseteq SignalNames
        /\ \A i \in 1..Len(score_breakdown) : score_breakdown[i][2] > 0
        /\ \A i, j \in 1..Len(score_breakdown) :
              score_breakdown[i][1] = score_breakdown[j][1] => i = j

\* one signal fired and eleven did not: the breakdown has the one entry
C15_Witness ==
    /\ pc = "returned"
    /\ Len(score_breakdown) = 1
    /\ total_score > 0

(***************************************************************************)
(* Properties of calculate_match_score on a null record                    *)
(***************************************************************************)
\* C16: a call of calculate_match_score with None in the place of a record,
\* on either side, raises: it does not return normally.
C16_NullRecordRaises ==
    (amazon_product = Null \/ target_product = Null) => pc # "returned"

(***************************************************************************)
(* Frame of the comparisons                                                *)
(***************************************************************************)
\* C18: a call of calculate_match_score leaves both of its records as they
\* were, and from the start of the comparison loop of the workflow on, the
\* fetched records of both sides stay as they were fetched.
C18_ReadOnlyRecords ==
    [][/\ (pc = "ready" /\ pc' = "returned")
          => (amazon_product' = amazon_product /\ target_product' = target_product)
       /\ wf_pc \in {"compare", "returned", "raised"}
          => /\ detailed_amazon_products' = detailed_amazon_products
             /\ detailed_target_products' = detailed_target_products]_vars

\* the two records of the sample test were scored and are as they were
C18_Witness ==
    Scored(amazon_sample, target_sample) /\ total_score > 0

(***************************************************************************)
(* Properties of concurrent calls                                          *)
(***************************************************************************)
\* C19: under every interleaving of the comparator steps of concurrent calls
\* on one scorer, a call that has run its twelve comparators holds the total
\* and the breakdown its pair gets when scored alone, and every call still
\* holds a pair of records that was passed.
C19_ParallelSafe ==
    \A w \in DOMAIN calls :
        /\ <<calls[w].amazon, calls[w].target>> \in ParallelPairs
        /\ calls[w].step = 13
           => calls[w].acc = calculate_match_score(calls[w].amazon, calls[w].target)

\* both calls are in the middle of their comparators, each with a score so far
C19_Witness ==
    /\ DOMAIN calls = Workers
    /\ \A w \in Workers : calls[w].step \in 5..9 /\ calls[w].acc.total > 0
    /\ calls["w1"].acc # calls["w2"].acc

(***************************************************************************)
(* Properties of the dimensions signal                                     *)
(***************************************************************************)
\* the contribution the rule gives two sets of dimensions: 60 when at least
\* two are in common and all in common are equal, 40 when all in common are
\* within 5% of the larger, 0 otherwise
DimensionsRule(dims1, dims2) ==
    LET common == (DOMAIN dims1) \cap (DOMAIN dims2)
    IN  IF Cardinality(common) < 2 THEN 0
        ELSE IF \A key \in common : dims1[key] = dims2[key] THEN 60
        ELSE IF \A key \in common :
                    20 * Abs(dims1[key] - dims2[key]) <= Max(dims1[key], dims2[key])
             THEN 40
        ELSE 0

\* C20: the dimensions signal needs at least two of length, width and height
\* as numbers on each side and at least two of them in common; it is 60 only
\* when every dimension in common has the same value on both sides, 40 when
\* they are not all equal and every one in common differs by at most 5%, and
\* 0 otherwise.
C20_DimensionsRule ==
    pc = "returned" =>
        BreakdownValue(score_breakdown, "dimensions_match")
        = IF _extract_dimensions(amazon_product).ok /\ _extract_dimensions(target_product).ok
          THEN DimensionsRule(_extract_dimensions(amazon_product).d,
                              _extract_dimensions(target_product).d)
          ELSE 0

(***************************************************************************)
(* Properties of the product-type compatibility signal                     *)
(***************************************************************************)
\* the product types _check_furniture_compatibility extracts from the title
\* of the source record and of the target record
AmazonTypes ==
    _extract_universal_product_types(
        py_lower(_extract_text_safely(amazon_product, title_paths_amazon)))

TargetTypes ==
    _extract_universal_product_types(
        py_lower(_extract_text_safely(target_product, title_paths_target)))

\* the two sets of types both hold an item of one subcategory of main category g
ShareSubgroup(types1, types2, g) ==
    \E sc \in compatibility_groups[g] : sc[2] \cap types1 # {} /\ sc[2] \cap types2 # {}

\* each of the two sets of types holds an item of main category g
ShareGroup(types1, types2, g) ==
    /\ \E sc \in compatibility_groups[g] : sc[2] \cap types1 # {}
    /\ \E sc \in compatibility_groups[g] : sc[2] \cap types2 # {}

MainCategories == 1..Len(compatibility_groups)

\* C21: the product-compatibility signal is 35 when the types of the two
\* titles share a type; 30 when they share no type and both hold a type of
\* the same subcategory; 20 only when they share a main category and no
\* subcategory, whatever the order in which the main categories are examined.
C21_CompatibilityLevels ==
    pc = "returned" /\ AmazonTypes # {} /\ TargetTypes # {} =>
        LET score == BreakdownValue(score_breakdown, "product_compatibility")
            subgroup == \E g \in MainCategories : ShareSubgroup(AmazonTypes, TargetTypes, g)
            group == \E g \in MainCategories : ShareGroup(AmazonTypes, TargetTypes, g)
        IN  /\ AmazonTypes \cap TargetTypes # {} => score = 35
            /\ AmazonTypes \cap TargetTypes = {} /\ subgroup => score = 30
            /\ score = 20 => group /\ ~subgroup

(***************************************************************************)
(* Properties of the model-number signal and of the identifier signal      *)
(***************************************************************************)
\* the model strings _check_model_match resolves on each side
AmazonModel ==
    _extract_text_safely(amazon_product,
        <<"specifications.model_number", "specifications.model",
          "identifiers.model_number", "basic_info.model_number">>)

TargetModel ==
    _extract_text_safely(target_product,
        <<"basic_info.model_number", "technical_specs.specifications.model_number",
          "product_details.model">>)

\* C22: the model-number signal compares only model strings longer than 3
\* characters: it is 80 when the two are equal, 56 when they differ and one
\* is inside the other, and 0 otherwise, also when the model string of either
\* side is missing or has 3 or fewer characters.
C22_ModelRule ==
    pc = "returned" =>
        BreakdownValue(score_breakdown, "model_match")
        = IF Len(AmazonModel) > 3 /\ Len(TargetModel) > 3
          THEN IF AmazonModel = TargetModel THEN 80
               ELSE IF py_in(AmazonModel, TargetModel) \/ py_in(TargetModel, AmazonModel)
                    THEN 56
               ELSE 0
          ELSE 0

\* the identifiers _check_upc_match resolves on each side
AmazonIdentifier == _extract_text_safely(amazon_product, amazon_upc_paths)

TargetIdentifier == _extract_text_safely(target_product, target_upc_paths)

\* C23: the identifier signal is 100 exactly when both records resolve to
\* strings of digits of at least 9 characters that are equal, and 0 in every
\* other case.
C23_IdentifierRule ==
    pc = "returned" =>
        BreakdownValue(score_breakdown, "upc_match")
        = IF /\ py_isdigit(AmazonIdentifier) /\ py_isdigit(TargetIdentifier)
             /\ Len(AmazonIdentifier) >= 9 /\ Len(TargetIdentifier) >= 9
             /\ AmazonIdentifier = TargetIdentifier
          THEN 100
          ELSE 0

(***************************************************************************)
(* Properties of the category signal                                       *)
(***************************************************************************)
\* the product-type keywords _check_category_match mines from the two titles
AmazonKeywords ==
    _extract_product_type_keywords(
        py_lower(_extract_text_safely(amazon_product, title_paths_amazon)))

TargetKeywords ==
    _extract_product_type_keywords(
        py_lower(_extract_text_safely(target_product, title_paths_target)))

\* a keyword of each side is a member of the same related group
MembersOfOneGroup(types1, types2) ==
    \E g \in 1..Len(related_groups) :
        types1 \cap related_groups[g] # {} /\ types2 \cap related_groups[g] # {}

\* C24: the category signal is 20 when the category sets of the two records
\* intersect or the product-type keywords of their titles intersect;
\* otherwise 14 when a keyword of each side is a member of the same related
\* group; otherwise 0, so keywords that are members of no group never give 14.
C24_CategoryRule ==
    pc = "returned" =>
        BreakdownValue(score_breakdown, "category_match")
        = IF \/ _extract_categories(amazon_product) \cap _extract_categories(target_product) # {}
             \/ AmazonKeywords \cap TargetKeywords # {}
          THEN 20
          ELSE IF MembersOfOneGroup(AmazonKeywords, TargetKeywords) THEN 14
          ELSE 0

(***************************************************************************)
(* Properties of the title signal                                          *)
(***************************************************************************)
\* the set of words of a normalised title
TitleWords(title) == SeqToSet(py_split(_normalize_title(title)))

AmazonTitleWords == TitleWords(_extract_text_safely(amazon_product, title_paths_amazon))

TargetTitleWords == TitleWords(_extract_text_safely(target_product, title_paths_target))

\* the points for n words in common among u words in all: the similarity is
\* n/u plus 0.1 for each word in common up to 0.3, compared here in hundredths
\* of u
TitlePoints(n, u) ==
    LET similarity == 100 * n + 10 * (IF n < 3 THEN n ELSE 3) * u
    IN  IF u = 0 THEN 0
        ELSE IF similarity >= 75 * u THEN 70
        ELSE IF similarity >= 50 * u THEN 50
        ELSE IF similarity >= 25 * u THEN 30
        ELSE IF similarity >= 10 * u THEN 15
        ELSE 0

AmazonBrand == _extract_text_safely(amazon_product, <<"brand", "basic_info.brand">>)

TargetBrand == _extract_text_safely(target_product, <<"basic_info.brand", "brand">>)

\* both brands are names of one row of the alias table
AliasMatch(b1, b2) ==
    \E i \in 1..Len(brand_mappings) :
        {b1, b2} \subseteq {brand_mappings[i][1]} \cup brand_mappings[i][2]

\* both brands are longer than 3 characters and one contains the other
ContainmentMatch(b1, b2) ==
    Len(b1) > 3 /\ Len(b2) > 3 /\ (py_in(b1, b2) \/ py_in(b2, b1))

\* short is the initials of the words of long
InitialsMatch(long, short) ==
    /\ Len(py_split(long)) > 1
    /\ Len(short) <= 4
    /\ short = Initials(py_split(long), 1, "")

\* C26: the brand signal is 40 when the two brand strings are equal after
\* lower-casing and trimming; 32 when they are not equal but match through
\* the alias table, through containment or through initials; 0 otherwise,
\* also when either brand is missing.  It has no other value.
C26_BrandRule ==
    pc = "returned" =>
        BreakdownValue(score_breakdown, "brand_match")
        = IF AmazonBrand = "" \/ TargetBrand = "" THEN 0
          ELSE IF AmazonBrand = TargetBrand THEN 40
          ELSE IF \/ AliasMatch(AmazonBrand, TargetBrand)
                  \/ ContainmentMatch(AmazonBrand, TargetBrand)
                  \/ InitialsMatch(AmazonBrand, TargetBrand)
                  \/ InitialsMatch(TargetBrand, AmazonBrand)
               THEN 32
          ELSE 0

\* 32 through initials alone
C26_Witness ==
    /\ pc = "returned"
    /\ BreakdownValue(score_breakdown, "brand_match") = 32
    /\ ~AliasMatch(AmazonBrand, TargetBrand)
    /\ ~ContainmentMatch(AmazonBrand, TargetBrand)

\* C29: the word-overlap fallback of the product-compatibility signal never
\* gives points: the contribution is one of 0, 20, 30, 35 and never 5, 10 or
\* 15, because a word shared by the words of the two sets of types makes the
\* two sets share a type, which gives 35 before the fallback is reached.
C29_FallbackGivesNothing ==
    pc = "returned" =>
        /\ BreakdownValue(score_breakdown, "product_compatibility") \in {0, 20, 30, 35}
        /\ WordsOfTypes(AmazonTypes) \cap WordsOfTypes(TargetTypes) # {}
              => AmazonTypes \cap TargetTypes # {}

\* the fallback is reached with a two-word type: the titles share a word, the
\* types share neither a type nor a main category
C29_Witness ==
    /\ pc = "returned"
    /\ AmazonTitleWords \cap TargetTitleWords # {}
    /\ \E ty \in AmazonTypes : Len(py_split(ty)) = 2
    /\ TargetTypes # {}
    /\ AmazonTypes \cap TargetTypes = {}
    /\ \A g \in MainCategories : ~ShareGroup(AmazonTypes, TargetTypes, g)
    /\ BreakdownValue(score_breakdown, "product_compatibility") = 0

(***************************************************************************)
(* Properties of the ranked list and of its report, for both workflows     *)
(***************************************************************************)
\* C27: in every list run_complete_matching_workflow or
\* run_amazon_url_matching_workflow returns, the confidence of each result is
\* the band get_confidence_level gives for the match_score of that result,
\* so down the ranked list the band never gets higher.
C27_BandsFollowRanking ==
    wf_pc = "returned" =>
        /\ \A k \in 1..Len(matching_results) :
              matching_results[k].confidence
              = get_confidence_level(matching_results[k].match_score)
        /\ \A k, l \in 1..Len(matching_results) :
              k < l => BandRank(matching_results[k].confidence)
                       >= BandRank(matching_results[l].confidence)

\* a returned list whose first and last results are in different bands
C27_Witness ==
    /\ wf_pc = "returned"
    /\ Len(matching_results) >= 2
    /\ BandRank(matching_results[1].confidence)
       > BandRank(matching_results[Len(matching_results)].confidence)

\* C28: the report built from a ranked list of k results lists the
\* comparisons in ranked order with rank 1..k and total_comparisons = k; the
\* best score and best confidence of its summary are those of the comparison
\* of rank 1, whose score is the greatest of all; for an empty list the best
\* score is 0 and there are no comparisons.
C28_Report ==
    report # <<>> =>
        LET data == report[1]
            k == Len(matching_results)
        IN  /\ data.total_comparisons = k
            /\ Len(data.comparisons) = k
            /\ \A i \in 1..k :
                  /\ data.comparisons[i].rank = i
                  /\ data.comparisons[i].match_score = matching_results[i].match_score
                  /\ data.comparisons[i].confidence = matching_results[i].confidence
                  /\ data.comparisons[i].score_breakdown
                     = matching_results[i].score_breakdown
            /\ k > 0 =>
                  /\ data.summary.best_match_score = data.comparisons[1].match_score
                  /\ data.summary.best_match_confidence = data.comparisons[1].confidence
                  /\ \A i \in 1..k :
                        data.comparisons[i].match_score <= data.summary.best_match_score
            /\ k = 0 =>
                  /\ data.summary.best_match_score = 0
                  /\ data.comparisons = <<>>

\* a report of several comparisons with different scores
C28_Witness ==
    /\ report # <<>>
    /\ Len(report[1].comparisons) >= 2
    /\ report[1].comparisons[1].match_score > report[1].comparisons[2].match_score

====
